---- MODULE Spec2Model ----
(***************************************************************************)
(* AWIN <-> Medusa synchronisation scripts: the detection script           *)
(* (awin-medusa-sync), the importer (import-missing-awin) and the stock    *)
(* reconciler (reconcile-stock), with the catalog's HTTP API as their      *)
(* environment.                                                            *)
(*                                                                         *)
(* Text is modelled character by character: a string is a sequence of      *)
(* one-character strings ("E_ACUTE" and "COMB_ACUTE" stand for U+00E9 and  *)
(* U+0301, "LF" for the line feed).                                        *)
(***************************************************************************)
EXTENDS Integers, Sequences, FiniteSets, TLC

\* ------------------------------------------------------------------ text

\* null and undefined: one-element sequences no text can equal
Null == <<"NULL">>
Undefined == <<"UNDEFINED">>

LowerLetters ==
  <<"a","b","c","d","e","f","g","h","i","j","k","l","m",
    "n","o","p","q","r","s","t","u","v","w","x","y","z">>
UpperLetters ==
  <<"A","B","C","D","E","F","G","H","I","J","K","L","M",
    "N","O","P","Q","R","S","T","U","V","W","X","Y","Z">>
Digits == <<"0","1","2","3","4","5","6","7","8","9">>

Range(s) == { s[i] : i \in DOMAIN s }

IsDigit(c) == c \in Range(Digits)
\* the character class [a-z0-9]
IsAlnum(c) == c \in Range(LowerLetters) \/ IsDigit(c)
\* what String.prototype.trim removes
IsSpace(c) == c \in {" ", "LF", "CR", "TAB"}

\* String.prototype.toLowerCase, one character
LowerChar(c) ==
  IF c \in Range(UpperLetters)
    THEN LowerLetters[CHOOSE i \in DOMAIN UpperLetters : UpperLetters[i] = c]
    ELSE c

\* String.prototype.normalize("NFKD"), one character: a precomposed letter
\* becomes its base letter followed by the combining mark
NfkdChar(c) == IF c = "E_ACUTE" THEN <<"e", "COMB_ACUTE">> ELSE <<c>>

ToLowerCase(s) == [i \in DOMAIN s |-> LowerChar(s[i])]

RECURSIVE Nfkd(_)
Nfkd(s) == IF s = <<>> THEN <<>> ELSE NfkdChar(Head(s)) \o Nfkd(Tail(s))

\* s.replace(/[^a-z0-9]+/g, "-")
RECURSIVE ReplaceNonAlnumRuns(_)
ReplaceNonAlnumRuns(s) ==
  IF s = <<>> THEN <<>>
  ELSE IF IsAlnum(Head(s)) THEN <<Head(s)>> \o ReplaceNonAlnumRuns(Tail(s))
  ELSE IF Len(s) > 1 /\ ~IsAlnum(s[2]) THEN ReplaceNonAlnumRuns(Tail(s))
  ELSE <<"-">> \o ReplaceNonAlnumRuns(Tail(s))

\* s.replace(/-+/g, "-")
RECURSIVE CollapseHyphens(_)
CollapseHyphens(s) ==
  IF s = <<>> THEN <<>>
  ELSE IF Head(s) = "-" /\ Len(s) > 1 /\ s[2] = "-" THEN CollapseHyphens(Tail(s))
  ELSE <<Head(s)>> \o CollapseHyphens(Tail(s))

\* s.replace(/^-|-$/g, ""): one hyphen at the start, one at the end
StripEdgeHyphens(s) ==
  LET a == IF s # <<>> /\ Head(s) = "-" THEN Tail(s) ELSE s
  IN  IF a # <<>> /\ a[Len(a)] = "-" THEN SubSeq(a, 1, Len(a) - 1) ELSE a

\* a slugify that would leave the hyphens at the ends
slugify_untrimmed(value) ==
  IF value = <<>> \/ value = Null \/ value = Undefined THEN <<>>
  ELSE CollapseHyphens(ReplaceNonAlnumRuns(Nfkd(ToLowerCase(value))))

slugify(value) ==
  IF value = <<>> \/ value = Null \/ value = Undefined THEN <<>>
  ELSE StripEdgeHyphens(CollapseHyphens(ReplaceNonAlnumRuns(Nfkd(ToLowerCase(value)))))

\* String.prototype.split on a one-character separator
RECURSIVE SplitAcc(_, _, _)
SplitAcc(s, sep, cur) ==
  IF s = <<>> THEN <<cur>>
  ELSE IF Head(s) = sep THEN <<cur>> \o SplitAcc(Tail(s), sep, <<>>)
  ELSE SplitAcc(Tail(s), sep, Append(cur, Head(s)))
Split(s, sep) == SplitAcc(s, sep, <<>>)

NonEmpty(x) == x # <<>>

\* Array.prototype.join
RECURSIVE Join(_, _)
Join(parts, sep) ==
  IF parts = <<>> THEN <<>>
  ELSE IF Len(parts) = 1 THEN parts[1]
  ELSE parts[1] \o sep \o Join(Tail(parts), sep)

\* String.prototype.includes
Includes(s, needle) ==
  \E i \in 1..(Len(s) - Len(needle) + 1) : SubSeq(s, i, i + Len(needle) - 1) = needle

\* String.prototype.trim
RECURSIVE TrimStart(_)
TrimStart(s) == IF s # <<>> /\ IsSpace(Head(s)) THEN TrimStart(Tail(s)) ELSE s
RECURSIVE TrimEnd(_)
TrimEnd(s) ==
  IF s # <<>> /\ IsSpace(s[Len(s)]) THEN TrimEnd(SubSeq(s, 1, Len(s) - 1)) ELSE s
Trim(s) == TrimEnd(TrimStart(s))

\* ------------------------------------------------- comparison key

DESCRIPTOR_WORDS ==
  { <<"r","e","c","h","a","r","g","e","a","b","l","e">>,
    <<"d","u","a","l">>,
    <<"p","o","w","e","r","f","u","l">>,
    <<"a","u","t","o","m","a","t","i","c">>,
    <<"c","l","a","s","s","i","c">>,
    <<"p","r","e","m","i","u","m">>,
    <<"p","e","t","i","t","e">>,
    <<"m","i","n","i">>,
    <<"m","a","s","s","a","g","e","r">>,
    <<"m","a","s","t","u","r","b","a","t","o","r">>,
    <<"s","t","i","m","u","l","a","t","o","r">>,
    <<"v","i","b","r","a","t","o","r">>,
    <<"i","n","t","e","n","s","e">>,
    <<"e","d","i","t","i","o","n">>,
    <<"b","u","n","d","l","e">>,
    <<"k","i","t">>,
    <<"s","e","t">>,
    <<"a","p","p">>,
    <<"c","o","n","t","r","o","l","l","e","d">>,
    <<"r","e","m","o","t","e">>,
    <<"w","i","r","e","l","e","s","s">>,
    <<"s","i","l","i","c","o","n","e">>,
    <<"w","a","t","e","r","p","r","o","o","f">>,
    <<"u","s","b">>,
    <<"c","h","a","r","g","i","n","g">>,
    <<"m","a","g","n","e","t","i","c">>,
    <<"s","u","c","t","i","o","n">>,
    <<"t","o","n","g","u","e">>,
    <<"r","a","b","b","i","t">>,
    <<"p","l","u","s">>,
    <<"p","r","o">>,
    <<"u","l","t","r","a">>,
    <<"a","d","v","a","n","c","e","d">>,
    <<"p","l","e","a","s","u","r","e">>,
    <<"t","o","y">>,
    <<"s","e","x">>,
    <<"a","d","u","l","t">> }

COLOR_WORDS ==
  { <<"b","l","a","c","k">>,
    <<"p","i","n","k">>,
    <<"p","u","r","p","l","e">>,
    <<"v","i","o","l","e","t">>,
    <<"b","l","u","e">>,
    <<"n","a","v","y">>,
    <<"r","e","d">>,
    <<"r","o","s","e">>,
    <<"g","o","l","d">>,
    <<"r","o","s","e","-","g","o","l","d">>,
    <<"s","i","l","v","e","r">>,
    <<"p","l","a","t","i","n","u","m">>,
    <<"l","i","l","a","c">>,
    <<"w","h","i","t","e">>,
    <<"c","l","e","a","r">>,
    <<"t","r","a","n","s","p","a","r","e","n","t">>,
    <<"n","u","d","e">>,
    <<"t","a","n">>,
    <<"a","q","u","a">>,
    <<"t","e","a","l">>,
    <<"g","r","e","e","n">>,
    <<"y","e","l","l","o","w">> }

AllDigits(s) == \A i \in DOMAIN s : IsDigit(s[i])

\* /^(\d+)(cm|mm|in|inch)?$/
LENGTH_PATTERN(token) ==
  \E k \in 1..Len(token) :
    /\ AllDigits(SubSeq(token, 1, k))
    /\ SubSeq(token, k + 1, Len(token)) \in
         { <<>>, <<"c","m">>, <<"m","m">>, <<"i","n">>, <<"i","n","c","h">> }

\* /^(xl|xs|sm|md|lg|xxl|xxxl)$/
SizeToken(token) ==
  token \in { <<"x","l">>, <<"x","s">>, <<"s","m">>, <<"m","d">>, <<"l","g">>,
              <<"x","x","l">>, <<"x","x","x","l">> }

NotHyphen(c) == c # "-"

KeepToken(token) ==
  /\ Len(token) # 0
  /\ token \notin DESCRIPTOR_WORDS
  /\ token \notin COLOR_WORDS
  /\ SelectSeq(token, NotHyphen) \notin COLOR_WORDS
  /\ ~LENGTH_PATTERN(token)
  /\ ~SizeToken(token)

\* a key that would not fall back to the slug
descriptorKey_noFallback(slug) ==
  IF slug = <<>> THEN <<>>
  ELSE Join(SelectSeq(SelectSeq(Split(slug, "-"), NonEmpty), KeepToken), <<"-">>)

descriptorKey(slug) ==
  IF slug = <<>> THEN <<>>
  ELSE LET tokens == SelectSeq(Split(slug, "-"), NonEmpty)
           filtered == SelectSeq(tokens, KeepToken)
       IN  IF Len(filtered) # 0 THEN Join(filtered, <<"-">>) ELSE slug

\* ------------------------------------------------- values and numbers

\* parseBoolean: ["1", "true", "yes", "y"].includes(value?.toLowerCase?.() ?? "")
parseBoolean(value) ==
  LET text == IF value = Undefined \/ value = Null THEN <<>> ELSE ToLowerCase(value)
  IN  text \in { <<"1">>, <<"t","r","u","e">>, <<"y","e","s">>, <<"y">> }

DigitValue(c) == (CHOOSE i \in DOMAIN Digits : Digits[i] = c) - 1

RECURSIVE DigitsToNat(_)
DigitsToNat(ds) ==
  IF ds = <<>> THEN 0 ELSE DigitsToNat(SubSeq(ds, 1, Len(ds) - 1)) * 10 + DigitValue(ds[Len(ds)])

RECURSIVE NatToDigits(_)
NatToDigits(n) ==
  IF n < 10 THEN <<Digits[n + 1]>> ELSE NatToDigits(n \div 10) \o <<Digits[(n % 10) + 1]>>

RECURSIVE TakeDigits(_)
TakeDigits(s) ==
  IF s # <<>> /\ IsDigit(Head(s)) THEN <<Head(s)>> \o TakeDigits(Tail(s)) ELSE <<>>

RECURSIVE DropTrailingZeros(_)
DropTrailingZeros(ds) ==
  IF ds # <<>> /\ ds[Len(ds)] = "0" THEN DropTrailingZeros(SubSeq(ds, 1, Len(ds) - 1)) ELSE ds

\* A number is [nan, int, frac]: the integer part and the digits after the
\* point without trailing zeros; nan marks NaN.  parseFloat reads the longest
\* prefix digits [ "." digits ] that holds at least one digit.
NaN == [nan |-> TRUE, int |-> 0, frac |-> <<>>]

parseFloat(s) ==
  LET ip   == TakeDigits(s)
      rest == SubSeq(s, Len(ip) + 1, Len(s))
      fp   == IF rest # <<>> /\ Head(rest) = "." THEN TakeDigits(Tail(rest)) ELSE <<>>
  IN  IF ip = <<>> /\ fp = <<>> THEN NaN
      ELSE [nan |-> FALSE, int |-> DigitsToNat(ip), frac |-> DropTrailingZeros(fp)]

IsPriceChar(c) == IsDigit(c) \/ c = "." \/ c = ","

\* s.replace(",", "."): the first comma only
RECURSIVE ReplaceFirstComma(_)
ReplaceFirstComma(s) ==
  IF s = <<>> THEN <<>>
  ELSE IF Head(s) = "," THEN <<".">> \o Tail(s)
  ELSE <<Head(s)>> \o ReplaceFirstComma(Tail(s))

\* parsePrice answers null where this answers NaN (Number.isFinite fails)
parsePrice(value) ==
  IF value = <<>> \/ value = Undefined \/ value = Null THEN NaN
  ELSE parseFloat(ReplaceFirstComma(SelectSeq(value, IsPriceChar)))

\* String(value) of a boolean, of an integer and of a number
StringOfBoolean(b) == IF b THEN <<"t","r","u","e">> ELSE <<"f","a","l","s","e">>
StringOfInteger(n) == IF n < 0 THEN <<"-">> \o NatToDigits(0 - n) ELSE NatToDigits(n)
StringOfNumber(x) ==
  NatToDigits(x.int) \o (IF x.frac = <<>> THEN <<>> ELSE <<".">> \o x.frac)

\* ------------------------------------------------- detection: inputs

\* the last path segment of a deep link (new URL(...).pathname, or the raw
\* text when it is no absolute URL).  The links of the model either start with
\* the scheme below or hold no colon at all.
UrlScheme == <<"h", ":", "/", "/">>
IsAbsoluteUrl(s) == Len(s) >= Len(UrlScheme) /\ SubSeq(s, 1, Len(UrlScheme)) = UrlScheme

RECURSIVE TakeUntil(_, _)
TakeUntil(s, stops) ==
  IF s = <<>> \/ Head(s) \in stops THEN <<>> ELSE <<Head(s)>> \o TakeUntil(Tail(s), stops)

UrlPathname(s) ==
  LET afterScheme == SubSeq(s, Len(UrlScheme) + 1, Len(s))
      authority   == TakeUntil(afterScheme, {"/", "?", "#"})
      afterAuth   == SubSeq(afterScheme, Len(authority) + 1, Len(afterScheme))
  IN  TakeUntil(afterAuth, {"?", "#"})

Pop(parts) == IF parts = <<>> THEN <<>> ELSE parts[Len(parts)]

slugSegmentOf(deepLink) ==
  IF IsAbsoluteUrl(deepLink)
    THEN Pop(SelectSeq(Split(UrlPathname(deepLink), "/"), NonEmpty))
    ELSE Pop(SelectSeq(Split(deepLink, "/"), NonEmpty))

\* a variant is a record; it holds inventory_quantity when the catalog gave a number
HasQuantity(variant) == "inventory_quantity" \in DOMAIN variant

RECURSIVE SumQuantities(_)
SumQuantities(variants) ==
  IF variants = <<>> THEN 0
  ELSE (IF HasQuantity(Head(variants)) THEN Head(variants).inventory_quantity ELSE 0)
       + SumQuantities(Tail(variants))

getMedusaInventory(product) == SumQuantities(product.variants)

\* ------------------------------------------------- CSV

\* a cell of a record: row[header], undefined when the record has no such field
Field(row, header) == IF header \in DOMAIN row THEN row[header] ELSE Undefined

\* str.replace(/"/g, '""')
RECURSIVE DoubleQuotes(_)
DoubleQuotes(s) ==
  IF s = <<>> THEN <<>>
  ELSE (IF Head(s) = "\"" THEN <<"\"", "\"">> ELSE <<Head(s)>>) \o DoubleQuotes(Tail(s))

\* one value of toCsvRow; the value is null, undefined or already a string
toCsvCell(value) ==
  IF value = Null \/ value = Undefined THEN <<>>
  ELSE IF \E i \in DOMAIN value : value[i] \in {";", "LF", "\""}
    THEN <<"\"">> \o DoubleQuotes(value) \o <<"\"">>
    ELSE value

toCsvRow(values) == Join([i \in DOMAIN values |-> toCsvCell(values[i])], <<";">>)

\* the content writeCsv writes
writeCsv(headers, rows) ==
  LET headerLine == Join(headers, <<";">>)
      body == Join([r \in DOMAIN rows |->
                      toCsvRow([h \in DOMAIN headers |-> Field(rows[r], headers[h])])],
                   <<"LF">>)
  IN  headerLine \o <<"LF">> \o body

RECURSIVE SplitCsvFrom(_, _, _, _)
SplitCsvFrom(line, i, buffer, inQuotes) ==
  IF i > Len(line) THEN <<buffer>>
  ELSE IF line[i] = "\"" THEN
    (IF i + 1 <= Len(line) /\ line[i + 1] = "\""
       THEN SplitCsvFrom(line, i + 2, Append(buffer, "\""), inQuotes)
       ELSE SplitCsvFrom(line, i + 1, buffer, ~inQuotes))
  ELSE IF line[i] = ";" /\ ~inQuotes THEN <<buffer>> \o SplitCsvFrom(line, i + 1, <<>>, inQuotes)
  ELSE SplitCsvFrom(line, i + 1, Append(buffer, line[i]), inQuotes)

splitCsvLine(line) ==
  LET cells == SplitCsvFrom(line, 1, <<>>, FALSE)
  IN  [i \in DOMAIN cells |-> Trim(cells[i])]

\* content.split(/\r?\n/): a carriage return right before a line feed belongs
\* to the separator
SplitLines(content) ==
  LET pieces == Split(content, "LF")
  IN  [i \in DOMAIN pieces |->
         IF i < Len(pieces) /\ pieces[i] # <<>> /\ pieces[i][Len(pieces[i])] = "CR"
           THEN SubSeq(pieces[i], 1, Len(pieces[i]) - 1)
           ELSE pieces[i]]

NotBlank(line) == Len(Trim(line)) > 0

\* the rows of parseCsv: one record per data line, keyed by the header cells
parseCsv(content) ==
  LET lines == SelectSeq(SplitLines(content), NotBlank)
  IN  IF Len(lines) = 0 THEN <<>>
      ELSE LET headers == splitCsvLine(lines[1])
               Last(h) == CHOOSE i \in DOMAIN headers :
                            headers[i] = h /\ \A j \in DOMAIN headers : headers[j] = h => j <= i
           IN  [r \in 1..(Len(lines) - 1) |->
                  LET cells == splitCsvLine(lines[r + 1])
                  IN  [h \in Range(headers) |->
                         IF Last(h) <= Len(cells) THEN cells[Last(h)] ELSE <<>>]]

\* ------------------------------------------------- model bounds and pools

\* the longest catalog and the longest feed of a detection run
MaxProducts == 3
MaxFeedRows == 2

SeqsUpTo(S, n) == UNION { [1..k -> S] : k \in 0..n }

W_wand == <<"w","a","n","d">>
W_ring == <<"r","i","n","g">>

\* catalog products as /store/products lists them: id, handle, title and one
\* inventory quantity per variant
ProductPool ==
  { [id |-> <<"p","1">>, handle |-> W_wand, title |-> <<"W">>, variants |-> <<[inventory_quantity |-> 0]>>],
    [id |-> <<"p","2">>, handle |-> W_wand \o <<"-","m","i","n","i">>, title |-> <<"M">>,
     variants |-> <<[inventory_quantity |-> 3]>>],
    [id |-> <<"p","3">>, handle |-> <<"W","a","n","d">>, title |-> <<"U">>,
     variants |-> <<[inventory_quantity |-> 0], [sku |-> <<"s">>]>>],
    [id |-> <<"p","4">>, handle |-> Null, title |-> <<"N">>, variants |-> <<>>],
    [id |-> <<"p","5">>, handle |-> W_ring, title |-> <<"R">>, variants |-> <<[inventory_quantity |-> 2], [inventory_quantity |-> -2]>>] }

\* feed rows as parseCsv returns them
FeedPool ==
  { [deep_link |-> UrlScheme \o <<"x","/">> \o W_wand \o <<"-","p","r","o">>,
     in_stock |-> <<"1">>, StockStatus |-> <<>>, price |-> <<"9",".","5","0">>],
    [deep_link |-> UrlScheme \o <<"x","/","p","/">> \o W_ring \o <<"?","r">>,
     in_stock |-> <<"0">>, StockStatus |-> <<"1","0","0">>, price |-> <<"7">>],
    [deep_link |-> <<"/","W","a","n","d","/">>,
     in_stock |-> <<"Y">>, StockStatus |-> <<>>, price |-> <<"n","/","a">>],
    [deep_link |-> <<>>,
     in_stock |-> <<>>, StockStatus |-> <<>>, price |-> <<"1",",","2","5"," ","g","b","p">>],
    [deep_link |-> UrlScheme \o <<"x","/">> \o W_ring \o <<"-","x","l","/">>,
     in_stock |-> <<"0">>, StockStatus |-> <<"5">>, price |-> <<>>] }

\* the catalog lists each product once
Catalogs ==
  { c \in SeqsUpTo(ProductPool, MaxProducts) :
      \A i, j \in DOMAIN c : i # j => c[i] # c[j] }

Feeds == SeqsUpTo(FeedPool, MaxFeedRows)

\* ------------------------------------------------- detection: state

VARIABLES
  medusaProducts,     \* the fetched catalog
  awinRows,           \* the parsed feed
  syncPc,             \* "index", "seed", "feed", "done", or "off"
  pIdx,               \* position of the catalog loop
  rIdx,               \* position of the feed loop
  medusaByHandle,     \* Map slug -> product, as <<slug, position>> pairs in insertion order
  medusaByLooseKey,   \* Map comparison key -> products (positions)
  matchedHandles,     \* Set of handles
  medusaOnlyHandles,  \* Set of slugs, in insertion order
  missingRecords,
  looseMatches,
  stockIssues,
  medusaOnly,
  rowMatch            \* per processed feed row: the match kind and the matched product

syncVars ==
  <<medusaProducts, awinRows, syncPc, pIdx, rIdx, medusaByHandle, medusaByLooseKey,
    matchedHandles, medusaOnlyHandles, missingRecords, looseMatches, stockIssues,
    medusaOnly, rowMatch>>

\* Map.prototype.get / set / keys on the pair list
MapHas(m, key) == \E i \in DOMAIN m : m[i][1] = key
MapGet(m, key) == m[CHOOSE i \in DOMAIN m : m[i][1] = key][2]
MapSet(m, key, value) ==
  IF MapHas(m, key)
    THEN [i \in DOMAIN m |-> IF m[i][1] = key THEN <<key, value>> ELSE m[i]]
    ELSE Append(m, <<key, value>>)
MapKeys(m) == [i \in DOMAIN m |-> m[i][1]]

\* medusaByLooseKey.get(key) ?? []
LooseGet(m, key) == IF key \in DOMAIN m THEN m[key] ELSE <<>>
LoosePush(m, key, p) ==
  [k \in DOMAIN m \cup {key} |-> IF k = key THEN Append(LooseGet(m, key), p) ELSE m[k]]

\* a delete that would leave the set as it is
SetDelete_none(s, x) == s

\* Set.prototype.delete on the ordered set
SetDelete(s, x) ==
  LET Other(y) == y # x
  IN  SelectSeq(s, Other)

SyncInit ==
  /\ medusaProducts \in Catalogs
  /\ awinRows \in Feeds
  /\ syncPc = "index"
  /\ pIdx = 1
  /\ rIdx = 1
  /\ medusaByHandle = <<>>
  /\ medusaByLooseKey = <<>>
  /\ matchedHandles = {}
  /\ medusaOnlyHandles = <<>>
  /\ missingRecords = <<>>
  /\ looseMatches = <<>>
  /\ stockIssues = <<>>
  /\ medusaOnly = <<>>
  /\ rowMatch = <<>>

\* ------------------------------------------------- detection: steps

\* one iteration of the catalog loop
IndexedByHandle(m, handle, p) == IF handle = <<>> THEN m ELSE MapSet(m, handle, p)
IndexedByLooseKey(m, handle, p) ==
  IF handle = <<>> THEN m ELSE LoosePush(m, descriptorKey(handle), p)

IndexProduct ==
  /\ syncPc = "index"
  /\ pIdx <= Len(medusaProducts)
  /\ LET handle == slugify(medusaProducts[pIdx].handle)
     IN  /\ medusaByHandle' = IndexedByHandle(medusaByHandle, handle, pIdx)
         /\ medusaByLooseKey' = IndexedByLooseKey(medusaByLooseKey, handle, pIdx)
  /\ pIdx' = pIdx + 1
  /\ UNCHANGED <<medusaProducts, awinRows, syncPc, rIdx, matchedHandles, medusaOnlyHandles,
                 missingRecords, looseMatches, stockIssues, medusaOnly, rowMatch>>

\* const medusaOnlyHandles = new Set(medusaByHandle.keys())
SeedMedusaOnly ==
  /\ syncPc = "index"
  /\ pIdx > Len(medusaProducts)
  /\ medusaOnlyHandles' = MapKeys(medusaByHandle)
  /\ syncPc' = "feed"
  /\ UNCHANGED <<medusaProducts, awinRows, pIdx, rIdx, medusaByHandle, medusaByLooseKey,
                 matchedHandles, missingRecords, looseMatches, stockIssues, medusaOnly,
                 rowMatch>>

\* a loose lookup that would take the first of any number of candidates
LooseCandidate_first(candidates) ==
  IF Len(candidates) >= 1 THEN [kind |-> "loose", product |-> candidates[1]]
  ELSE [kind |-> "none", product |-> 0]

\* candidates.length === 1
LooseCandidate(candidates) ==
  IF Len(candidates) = 1 THEN [kind |-> "loose", product |-> candidates[1]]
  ELSE [kind |-> "none", product |-> 0]

\* a lookup that would go to the comparison key at once
MatchOf_looseOnly(byHandle, byLooseKey, normalizedSlug, looseKey) ==
  LooseCandidate(LooseGet(byLooseKey, looseKey))

\* the exact lookup, then the loose one: [kind, product], product 0 for no match

MatchOf(byHandle, byLooseKey, normalizedSlug, looseKey) ==
  IF MapHas(byHandle, normalizedSlug)
    THEN [kind |-> "exact", product |-> MapGet(byHandle, normalizedSlug)]
    ELSE LooseCandidate(LooseGet(byLooseKey, looseKey))

\* a stock flag that would leave the status code out
awinInStockOf_flagOnly(row) == parseBoolean(row.in_stock)

\* parseBoolean(row.in_stock) || row.StockStatus === "100"
awinInStockOf(row) == parseBoolean(row.in_stock) \/ row.StockStatus = <<"1","0","0">>

StockIssue(product, medusaStock) ==
  [handle |-> product.handle, title |-> product.title, awin_in_stock |-> TRUE,
   medusa_stock |-> medusaStock]

MissingRecord(row, normalizedSlug, looseKey) ==
  [normalized_slug |-> normalizedSlug,
   comparison_key |-> looseKey,
   price |-> parsePrice(row.price),
   deep_link |-> row.deep_link,
   in_stock |-> awinInStockOf(row),
   stock_status |-> row.StockStatus]

\* one iteration of the feed loop
ProcessRow ==
  /\ syncPc = "feed"
  /\ rIdx <= Len(awinRows)
  /\ LET row == awinRows[rIdx]
         normalizedSlug == slugify(slugSegmentOf(row.deep_link))
         looseKey == descriptorKey(normalizedSlug)
         match == MatchOf(medusaByHandle, medusaByLooseKey, normalizedSlug, looseKey)
     IN  /\ rowMatch' = Append(rowMatch, match)
         /\ IF match.product # 0
              THEN LET matchedProduct == medusaProducts[match.product]
                       medusaStock == getMedusaInventory(matchedProduct)
                   IN  /\ matchedHandles' = matchedHandles \cup {matchedProduct.handle}
                       /\ medusaOnlyHandles' =
                            SetDelete(medusaOnlyHandles, slugify(matchedProduct.handle))
                       /\ looseMatches' =
                            IF match.kind = "loose"
                              THEN Append(looseMatches,
                                          [awin_slug |-> normalizedSlug,
                                           medusa_handle |-> matchedProduct.handle,
                                           comparison_key |-> looseKey,
                                           row |-> rIdx])
                              ELSE looseMatches
                       /\ stockIssues' =
                            IF awinInStockOf(row) /\ medusaStock <= 0
                              THEN Append(stockIssues, StockIssue(matchedProduct, medusaStock))
                              ELSE stockIssues
                       /\ UNCHANGED missingRecords
              ELSE /\ missingRecords' =
                        Append(missingRecords, MissingRecord(row, normalizedSlug, looseKey))
                   /\ UNCHANGED <<matchedHandles, medusaOnlyHandles, looseMatches, stockIssues>>
  /\ rIdx' = rIdx + 1
  /\ UNCHANGED <<medusaProducts, awinRows, syncPc, pIdx, medusaByHandle, medusaByLooseKey,
                 medusaOnly>>

\* Array.from(medusaOnlyHandles).map(...)
BuildMedusaOnly ==
  /\ syncPc = "feed"
  /\ rIdx > Len(awinRows)
  /\ medusaOnly' =
       [i \in DOMAIN medusaOnlyHandles |->
          LET handle == medusaOnlyHandles[i]
              product == medusaProducts[MapGet(medusaByHandle, handle)]
          IN  [handle |-> handle, comparison_key |-> descriptorKey(handle),
               title |-> product.title, id |-> product.id]]
  /\ syncPc' = "done"
  /\ UNCHANGED <<medusaProducts, awinRows, pIdx, rIdx, medusaByHandle, medusaByLooseKey,
                 matchedHandles, medusaOnlyHandles, missingRecords, looseMatches,
                 stockIssues, rowMatch>>


\* ------------------------------------------------- HTTP and fetchWithRetry

\* fetchWithRetry(url, options = {}, retries = 5, initialDelay = 150)
retries == 5
initialDelay == 150

\* what the catalog answers to one request: a status and the body text
ResponsePool ==
  { [status |-> 200, text |-> <<"{","}">>],
    [status |-> 200, text |-> <<"<","p",">">>],
    [status |-> 200, text |-> <<"<","4","2","9",">">>],
    [status |-> 429, text |-> <<"s","l","o","w">>],
    [status |-> 500, text |-> <<"e","r","r">>],
    [status |-> 502, text |-> <<"u","p",":","4","2","9">>],
    [status |-> 404, text |-> <<>>] }

\* Response.ok
Ok(resp) == resp.status >= 200 /\ resp.status <= 299

\* resp.json(): the body parses when it is a JSON object; the bodies of the
\* pool are short enough for this test to decide it
ParsesAsJson(text) == Len(text) >= 2 /\ text[1] = "{" /\ text[Len(text)] = "}"

\* fetchJson resolves: the answer is ok and its body parses
Resolves(resp) == Ok(resp) /\ ParsesAsJson(resp.text)

\* the message of the error fetchJson throws: `HTTP ${resp.status}: ${text}`
\* for an answer that is not ok, and the SyntaxError of resp.json(), which
\* quotes the body, for an ok answer that does not parse
ErrorMessage(resp) ==
  IF Ok(resp)
    THEN <<"U","n","e","x","p","e","c","t","e","d"," ">> \o resp.text
    ELSE <<"H","T","T","P"," ">> \o NatToDigits(resp.status) \o <<":"," ">> \o resp.text

\* the catch block's test: i === retries || !err.message.includes("429")
Rethrows(i, message) == i = retries \/ ~Includes(message, <<"4","2","9">>)

\* one turn of the loop with a delay that is never doubled
Attempt_fixedDelay(i, delay, resp) ==
  IF Resolves(resp) THEN [kind |-> "return", i |-> i, delay |-> delay, slept |-> 0]
  ELSE IF Rethrows(i, ErrorMessage(resp))
    THEN [kind |-> "throw", i |-> i, delay |-> delay, slept |-> 0]
    ELSE [kind |-> "retry", i |-> i + 1, delay |-> delay, slept |-> delay]

\* one turn of fetchWithRetry's loop, given the answer to the attempt
Attempt(i, delay, resp) ==
  IF Resolves(resp) THEN [kind |-> "return", i |-> i, delay |-> delay, slept |-> 0]
  ELSE IF Rethrows(i, ErrorMessage(resp))
    THEN [kind |-> "throw", i |-> i, delay |-> delay, slept |-> 0]
    ELSE [kind |-> "retry", i |-> i + 1, delay |-> delay * 2, slept |-> delay]

\* a whole call of fetchWithRetry, given the answers to its attempts in order:
\* how it ends, and the answer of its last attempt
RECURSIVE FetchWithRetry(_, _, _)
FetchWithRetry(answers, i, delay) ==
  LET o == Attempt(i, delay, Head(answers))
  IN  IF o.kind = "retry" THEN FetchWithRetry(Tail(answers), o.i, o.delay)
      ELSE [kind |-> o.kind, answer |-> Head(answers)]

R_ok == [status |-> 200, text |-> <<"{","}">>]
R_429 == [status |-> 429, text |-> <<"s","l","o","w">>]
R_500 == [status |-> 500, text |-> <<"e","r","r">>]

\* the answers one request of a script can get: success at once, success
\* after a rate limit, a failure, and a rate limit on every attempt
AnswerScripts ==
  { <<R_ok>>, <<R_429, R_ok>>, <<R_500>>, [k \in 1..(retries + 1) |-> R_429] }

\* how a request through fetchWithRetry ends
Fetched(answers) == FetchWithRetry(answers, 0, initialDelay).kind = "return"

VARIABLES
  fwI,          \* fetchWithRetry's i
  fwDelay,      \* fetchWithRetry's delay
  fwState,      \* "idle", "running", "returned", "thrown"
  fwResponses,  \* the answers to the attempts of the current call, in order
  fwSleeps      \* the delays slept in the current call, in order

fwVars == <<fwI, fwDelay, fwState, fwResponses, fwSleeps>>

FwIdle ==
  /\ fwI = 0
  /\ fwDelay = initialDelay
  /\ fwState = "idle"
  /\ fwResponses = <<>>
  /\ fwSleeps = <<>>

\* a call of fetchWithRetry on its own
RetryCall ==
  /\ fwState = "idle"
  /\ fwState' = "running"
  /\ UNCHANGED <<fwI, fwDelay, fwResponses, fwSleeps>>

RetryAttempt ==
  /\ fwState = "running"
  /\ \E resp \in ResponsePool :
       LET o == Attempt(fwI, fwDelay, resp)
       IN  /\ fwResponses' = Append(fwResponses, resp)
           /\ fwI' = o.i
           /\ fwDelay' = o.delay
           /\ fwSleeps' = IF o.kind = "retry" THEN Append(fwSleeps, o.slept) ELSE fwSleeps
           /\ fwState' = CASE o.kind = "return" -> "returned"
                           [] o.kind = "throw" -> "thrown"
                           [] OTHER -> "running"

\* ------------------------------------------------- importer: inputs

\* the longest Missing report of an importer run, and how often the importer
\* is started on it
MaxImportRows == 2
MaxImportRuns == 2

\* rows of the Missing report as parseCsv returns them
ImportRowPool ==
  { [normalized_slug |-> W_wand, price |-> <<"9",".","5">>, in_stock |-> <<"t","r","u","e">>],
    [normalized_slug |-> <<"W","a","n","d">>, price |-> <<>>,
     in_stock |-> <<"f","a","l","s","e">>],
    [normalized_slug |-> W_ring, price |-> <<"7">>, in_stock |-> <<"f","a","l","s","e">>],
    [normalized_slug |-> <<>>, price |-> <<"3">>, in_stock |-> <<"t","r","u","e">>] }

\* the handles the catalog holds before the first run
InitialCatalogs == { <<>>, <<W_ring>> }

\* ------------------------------------------------- importer: state

VARIABLES
  impRows,        \* the rows of the report
  impPc,          \* where main is
  impRun,         \* how many times the importer has been started
  impIdx,         \* the row of the record loop (the batches flattened)
  impExisting,    \* the last lookup's answer: [run, row, count]
  catalog,        \* the handles of the catalog's products, in creation order
  impLog,         \* import-missing-awin-log.ndjson
  impFailures,    \* import-missing-awin-failures.ndjson
  created,
  skipped,
  failed,
  impSummary,     \* the summary file: whether it is written, and its totals
  impExit,        \* the exit code, -1 while there is none
  createRequests, \* the create requests this run has sent: [run, row, handle, lookup, answers]
  impMade,        \* the products this run has created: [handle, row]
  impOutcomes,    \* the entry types this run has written, in order
  impPrev,        \* the run before: how it ended, and the entry types it wrote
  impSinceWrite   \* the last of this run's write requests and sleeps: "write", "sleep", or "none"

impVars ==
  <<impRows, impPc, impRun, impIdx, impExisting, catalog, impLog, impFailures, created,
    skipped, failed, impSummary, impExit, createRequests, impMade, impOutcomes, impPrev,
    impSinceWrite>>

ImportInit ==
  /\ impRows \in SeqsUpTo(ImportRowPool, MaxImportRows)
  /\ catalog \in InitialCatalogs
  /\ impPc = "idle"
  /\ impRun = 0
  /\ impIdx = 1
  /\ impExisting = [run |-> 0, row |-> 0, count |-> 0]
  /\ impLog = <<>>
  /\ impFailures = <<>>
  /\ created = <<>>
  /\ skipped = <<>>
  /\ failed = <<>>
  /\ impSummary = [written |-> FALSE, rows |-> 0, created |-> 0, skipped |-> 0, failed |-> 0]
  /\ impExit = -1
  /\ createRequests = <<>>
  /\ impMade = <<>>
  /\ impOutcomes = <<>>
  /\ impPrev = [ended |-> "idle", outcomes |-> <<>>]
  /\ impSinceWrite = "none"

\* a writer that would replace the file's content (fs.writeFile)
appendLog_overwrite(file, entry) == <<entry>>

\* appendLog: fs.appendFile(filePath, JSON.stringify(entry) + "\n")
appendLog(file, entry) == Append(file, entry)

\* an entry keeps its type, the row it is about and the handle
Entry(type, row, handle) == [type |-> type, row |-> row, handle |-> handle]

\* a listing that would never find a product
Lookup_blind(cat, handle) == <<>>

\* GET /admin/products?handle=...&limit=1
Lookup(cat, handle) ==
  LET Matches(h) == h = handle
      found == SelectSeq(cat, Matches)
  IN  IF found = <<>> THEN <<>> ELSE <<found[1]>>

\* an existence test that would never skip, and one that would skip only on
\* two or more products
AlreadyExists_never(products) == FALSE
AlreadyExists_many(products) == Len(products) > 1

\* existing.products?.length
AlreadyExists(products) == Len(products) > 0

impHandle == slugify(impRows[impIdx].normalized_slug)

\* ------------------------------------------------- importer: steps

\* node import-missing-awin.mjs: the in-memory state of a fresh process
ImpStart ==
  /\ impPc \in {"idle", "done", "failed", "killed"}
  /\ impRun < MaxImportRuns
  /\ impRun' = impRun + 1
  /\ impPc' = "setup"
  /\ impIdx' = 1
  /\ created' = <<>>
  /\ skipped' = <<>>
  /\ failed' = <<>>
  /\ impExit' = -1
  /\ createRequests' = <<>>
  /\ impMade' = <<>>
  /\ impOutcomes' = <<>>
  /\ impPrev' = [ended |-> impPc, outcomes |-> impOutcomes]
  /\ impSinceWrite' = "none"
  /\ UNCHANGED <<impRows, impExisting, catalog, impLog, impFailures, impSummary>>

\* the login and the three lookups of ids before the loop: any of them may
\* throw, and main().catch exits with code 1
ImpSetupFails ==
  /\ impPc = "setup"
  /\ impPc' = "failed"
  /\ impExit' = 1
  /\ UNCHANGED <<impRows, impRun, impIdx, impExisting, catalog, impLog, impFailures, created,
                 skipped, failed, impSummary, createRequests, impMade, impOutcomes, impPrev,
                 impSinceWrite>>

\* ... or all succeed; then "Clear previous logs" unlinks both files
ImpClearLogs ==
  /\ impPc = "setup"
  /\ impLog' = <<>>
  /\ impFailures' = <<>>
  /\ impPc' = "row"
  /\ UNCHANGED <<impRows, impRun, impIdx, impExisting, catalog, created, skipped, failed,
                 impSummary, impExit, createRequests, impMade, impOutcomes, impPrev,
                 impSinceWrite>>

\* a record with an empty handle
ImpEmptyHandle ==
  /\ impPc = "row"
  /\ impIdx <= Len(impRows)
  /\ impHandle = <<>>
  /\ LET entry == Entry("invalid", impIdx, impHandle)
     IN  /\ failed' = Append(failed, entry)
         /\ impFailures' = appendLog(impFailures, entry)
  /\ impOutcomes' = Append(impOutcomes, "invalid")
  /\ impIdx' = impIdx + 1
  /\ UNCHANGED <<impRows, impPc, impRun, impExisting, catalog, impLog, created, skipped,
                 impSummary, impExit, createRequests, impMade, impPrev, impSinceWrite>>

\* a record with a handle: the idempotency check through fetchWithRetry; on
\* its answer the record is skipped, found invalid for its price, or goes on
\* to the create request
ImpLookup ==
  /\ impPc = "row"
  /\ impIdx <= Len(impRows)
  /\ impHandle # <<>>
  /\ \E answers \in AnswerScripts :
       LET products == Lookup(catalog, impHandle)
       IN  IF ~Fetched(answers)
             THEN LET entry == Entry("lookup_error", impIdx, impHandle)
                  IN  /\ failed' = Append(failed, entry)
                      /\ impFailures' = appendLog(impFailures, entry)
                      /\ impOutcomes' = Append(impOutcomes, "lookup_error")
                      /\ impIdx' = impIdx + 1
                      /\ UNCHANGED <<impPc, impExisting, impLog, skipped>>
             ELSE /\ impExisting' = [run |-> impRun, row |-> impIdx, count |-> Len(products)]
                  /\ IF AlreadyExists(products)
                       THEN LET entry == Entry("skip", impIdx, impHandle)
                            IN  /\ skipped' = Append(skipped, entry)
                                /\ impLog' = appendLog(impLog, entry)
                                /\ impOutcomes' = Append(impOutcomes, "skip")
                                /\ impIdx' = impIdx + 1
                                /\ UNCHANGED <<impPc, impFailures, failed>>
                       ELSE IF parsePrice(impRows[impIdx].price).nan
                         THEN LET entry == Entry("invalid", impIdx, impHandle)
                              IN  /\ failed' = Append(failed, entry)
                                  /\ impFailures' = appendLog(impFailures, entry)
                                  /\ impOutcomes' = Append(impOutcomes, "invalid")
                                  /\ impIdx' = impIdx + 1
                                  /\ UNCHANGED <<impPc, impLog, skipped>>
                         ELSE /\ impPc' = "create"
                              /\ UNCHANGED <<impIdx, impLog, impFailures, skipped, failed,
                                             impOutcomes>>
  /\ UNCHANGED <<impRows, impRun, catalog, created, impSummary, impExit, createRequests,
                 impMade, impPrev, impSinceWrite>>

\* POST /admin/products, sent with fetch, once: the request gets one answer,
\* whatever its status. A success answer means the
\* catalog holds the product. The importer then reads
\* createdProduct.product.variants[0] inside the same try block: an answer
\* whose body holds no product throws there, and the catch block records
\* create_error as it does for a failure answer
ImpCreate ==
  /\ impPc = "create"
  /\ \E resp \in {R_ok, R_429, R_500}, hasProduct \in BOOLEAN :
       /\ createRequests' =
            Append(createRequests,
                   [run |-> impRun, row |-> impIdx, handle |-> impHandle,
                    lookup |-> impExisting, answers |-> <<resp>>])
       /\ catalog' = IF Ok(resp) THEN Append(catalog, impHandle) ELSE catalog
       /\ impMade' = IF Ok(resp)
                       THEN Append(impMade, [handle |-> impHandle, row |-> impIdx])
                       ELSE impMade
       /\ IF Ok(resp) /\ hasProduct
            THEN /\ impPc' = IF parseBoolean(impRows[impIdx].in_stock) THEN "inventory"
                             ELSE "logCreated"
                 /\ UNCHANGED <<impFailures, failed, impOutcomes>>
            ELSE LET entry == Entry("create_error", impIdx, impHandle)
                 IN  /\ failed' = Append(failed, entry)
                     /\ impFailures' = appendLog(impFailures, entry)
                     /\ impOutcomes' = Append(impOutcomes, "create_error")
                     /\ impPc' = "sleep"
  /\ impSinceWrite' = "write"
  /\ UNCHANGED <<impRows, impRun, impIdx, impExisting, impLog, created, skipped, impSummary,
                 impExit, impPrev>>

\* POST /admin/inventory-items through fetchWithRetry; its failure is only
\* warned about
ImpInventoryItem ==
  /\ impPc = "inventory"
  /\ \E answers \in AnswerScripts :
       /\ FetchWithRetry(answers, 0, initialDelay).kind \in {"return", "throw"}
       /\ impPc' = "logCreated"
  /\ impSinceWrite' = "write"
  /\ UNCHANGED <<impRows, impRun, impIdx, impExisting, catalog, impLog, impFailures, created,
                 skipped, failed, impSummary, impExit, createRequests, impMade, impOutcomes,
                 impPrev>>

ImpLogCreated ==
  /\ impPc = "logCreated"
  /\ LET entry == Entry("created", impIdx, impHandle)
     IN  /\ created' = Append(created, entry)
         /\ impLog' = appendLog(impLog, entry)
  /\ impOutcomes' = Append(impOutcomes, "created")
  /\ impPc' = "sleep"
  /\ UNCHANGED <<impRows, impRun, impIdx, impExisting, catalog, impFailures, skipped, failed,
                 impSummary, impExit, createRequests, impMade, impPrev, impSinceWrite>>

\* await sleep(DELAY_MS), then the next record
ImpSleep ==
  /\ impPc = "sleep"
  /\ impIdx' = impIdx + 1
  /\ impPc' = "row"
  /\ impSinceWrite' = "sleep"
  /\ UNCHANGED <<impRows, impRun, impExisting, catalog, impLog, impFailures, created, skipped,
                 failed, impSummary, impExit, createRequests, impMade, impOutcomes, impPrev>>

\* after the last record: the summary file, and main returns
ImpSummary ==
  /\ impPc = "row"
  /\ impIdx > Len(impRows)
  /\ impSummary' = [written |-> TRUE, rows |-> Len(impRows), created |-> Len(created),
                    skipped |-> Len(skipped), failed |-> Len(failed)]
  /\ impExit' = 0
  /\ impPc' = "done"
  /\ UNCHANGED <<impRows, impRun, impIdx, impExisting, catalog, impLog, impFailures, created,
                 skipped, failed, createRequests, impMade, impOutcomes, impPrev, impSinceWrite>>

\* the process is terminated from outside, between any two steps
ImpKill ==
  /\ impPc \in {"setup", "row", "create", "inventory", "logCreated", "sleep"}
  /\ impPc' = "killed"
  /\ UNCHANGED <<impRows, impRun, impIdx, impExisting, catalog, impLog, impFailures, created,
                 skipped, failed, impSummary, impExit, createRequests, impMade, impOutcomes,
                 impPrev, impSinceWrite>>
\* ------------------------------------------------- stock reconciler: inputs

\* the longest stock report of a reconciler run, and how often the reconciler
\* is started on it
MaxStockRows == 2
MaxStockRuns == 2

K_id == <<"i","d">>
K_handle == <<"h","a","n","d","l","e">>
K_title == <<"t","i","t","l","e">>
K_awin_in_stock == <<"a","w","i","n","_","i","n","_","s","t","o","c","k">>
K_awin_stock == <<"a","w","i","n","_","s","t","o","c","k">>
K_medusa_stock == <<"m","e","d","u","s","a","_","s","t","o","c","k">>

\* the columns the detection script writes to stock-mismatches.csv
StockIssueHeaders == <<K_handle, K_title, K_awin_in_stock, K_medusa_stock>>

\* a stockIssues record as writeCsv reads it: row[header], turned to text
StockIssueRow(issue) ==
  [h \in Range(StockIssueHeaders) |->
     CASE h = K_handle -> issue.handle
       [] h = K_title -> issue.title
       [] h = K_awin_in_stock -> StringOfBoolean(issue.awin_in_stock)
       [] h = K_medusa_stock -> StringOfInteger(issue.medusa_stock)]

\* the products of the catalog as GET /admin/products/:id answers them: each
\* variant with the ids of its inventory items
I_1 == <<"i","1">>
I_2 == <<"i","2">>

AdminProducts ==
  { [id |-> <<"p","1">>, handle |-> W_wand, title |-> <<"W">>,
     variants |-> <<[id |-> <<"v","1">>, inventory_items |-> <<I_1>>]>>],
    [id |-> <<"p","2">>, handle |-> W_ring, title |-> <<"R">>,
     variants |-> <<[id |-> <<"v","2">>, inventory_items |-> <<>>],
                    [id |-> <<"v","3">>, inventory_items |-> <<I_2>>]>>],
    [id |-> <<"p","3">>, handle |-> <<"k","i","t">>, title |-> <<"K">>, variants |-> <<>>] }

InventoryItems == {I_1, I_2}

\* the stocked quantities before the first run
InitialLevels == [i \in InventoryItems |-> IF i = I_1 THEN 0 ELSE 4]

\* the stock-mismatches.csv files the detection script can write about them
DetectionReports ==
  LET issues == { StockIssue(p, 0) : p \in { q \in AdminProducts : q.variants # <<>> } }
      lists  == SeqsUpTo(issues, MaxStockRows)
  IN  { writeCsv(StockIssueHeaders, [i \in DOMAIN l |-> StockIssueRow(l[i])]) : l \in lists }

\* files an operator passes with --csv, with the columns the reconciler reads
OperatorHeaders == <<K_id, K_handle, K_awin_stock, K_medusa_stock>>

OperatorRow(id, handle, awinStock) ==
  [h \in Range(OperatorHeaders) |->
     CASE h = K_id -> id
       [] h = K_handle -> handle
       [] h = K_awin_stock -> awinStock
       [] h = K_medusa_stock -> <<"0">>]

OperatorRowPool ==
  { OperatorRow(<<"p","1">>, W_wand, <<"1">>),
    OperatorRow(<<"p","1">>, W_wand, <<"0">>),
    OperatorRow(<<"p","2">>, W_ring, <<"t","r","u","e">>),
    OperatorRow(<<"p","3">>, <<"k","i","t">>, <<"1">>),
    OperatorRow(<<>>, W_wand, <<"1">>) }

OperatorReports ==
  { writeCsv(OperatorHeaders, l) : l \in SeqsUpTo(OperatorRowPool, MaxStockRows) }

\* ------------------------------------------------- stock reconciler: state

VARIABLES
  stkCsv,        \* the content of the file given with --csv
  stkOrigin,     \* "detection" or "operator": who wrote that file
  stkRows,       \* parseCsv(csvContent).rows
  stkPc,
  stkRun,
  stkIdx,        \* the row of the record loop (the batches flattened)
  stkVariants,   \* product.product.variants of the current record
  stkV,          \* the position in stkVariants
  levels,        \* stocked quantity per inventory item at the default location
  stkLog,        \* reconcile-stock-log.ndjson
  stkFailures,   \* reconcile-stock-failures.ndjson
  updated,
  stkFailed,
  stkSummary,
  stkExit,       \* the exit code, -1 while there is none
  stkSet,        \* the inventory items the first run set
  stkAfterFirst  \* the levels when the first run ended

stkVars ==
  <<stkCsv, stkOrigin, stkRows, stkPc, stkRun, stkIdx, stkVariants, stkV, levels, stkLog,
    stkFailures, updated, stkFailed, stkSummary, stkExit, stkSet, stkAfterFirst>>

StockInit ==
  /\ \/ stkOrigin = "detection" /\ stkCsv \in DetectionReports
     \/ stkOrigin = "operator" /\ stkCsv \in OperatorReports
  /\ stkRows = <<>>
  /\ stkPc = "idle"
  /\ stkRun = 0
  /\ stkIdx = 1
  /\ stkVariants = <<>>
  /\ stkV = 1
  /\ levels = InitialLevels
  /\ stkLog = <<>>
  /\ stkFailures = <<>>
  /\ updated = <<>>
  /\ stkFailed = <<>>
  /\ stkSummary = [written |-> FALSE, rows |-> 0, updated |-> 0, failed |-> 0]
  /\ stkExit = -1
  /\ stkSet = {}
  /\ stkAfterFirst = [i \in InventoryItems |-> 0]

stkRow == stkRows[stkIdx]
productId == Field(stkRow, K_id)

\* const targetStock = parseBoolean(awinStock) ? 10 : 0
targetStock(row) == IF parseBoolean(Field(row, K_awin_stock)) THEN 10 ELSE 0

\* an update that would add the quantity to the level
SetLevel_adjust(lv, item, quantity) == [lv EXCEPT ![item] = @ + quantity]

\* POST .../location-levels/:location with { stocked_quantity }
SetLevel(lv, item, quantity) == [lv EXCEPT ![item] = quantity]

StockEntry(type, row, variant, target) ==
  [type |-> type, row |-> row, variant |-> variant, targetStock |-> target]

\* variant.inventory_items?.[0]?.id
inventoryItemId(variant) ==
  IF variant.inventory_items = <<>> THEN Undefined ELSE variant.inventory_items[1]

KnownProduct(id) == \E p \in AdminProducts : p.id = id
ProductById(id) == CHOOSE p \in AdminProducts : p.id = id

\* ------------------------------------------------- stock reconciler: steps

\* node reconcile-stock.mjs: the file is read and parsed
StkStart ==
  /\ stkPc \in {"idle", "done", "failed", "crashed"}
  /\ stkRun < MaxStockRuns
  /\ stkRun' = stkRun + 1
  /\ stkRows' = parseCsv(stkCsv)
  /\ stkPc' = "setup"
  /\ stkIdx' = 1
  /\ stkVariants' = <<>>
  /\ stkV' = 1
  /\ updated' = <<>>
  /\ stkFailed' = <<>>
  /\ stkExit' = -1
  /\ UNCHANGED <<stkCsv, stkOrigin, levels, stkLog, stkFailures, stkSummary, stkSet,
                 stkAfterFirst>>

\* the login or the lookup of the stock location throws before the loop
StkSetupFails ==
  /\ stkPc = "setup"
  /\ stkPc' = "failed"
  /\ stkExit' = 1
  /\ stkAfterFirst' = IF stkRun = 1 THEN levels ELSE stkAfterFirst
  /\ UNCHANGED <<stkCsv, stkOrigin, stkRows, stkRun, stkIdx, stkVariants, stkV, levels,
                 stkLog, stkFailures, updated, stkFailed, stkSummary, stkSet>>

\* ... or both succeed; then "Clear previous logs"
StkClearLogs ==
  /\ stkPc = "setup"
  /\ stkLog' = <<>>
  /\ stkFailures' = <<>>
  /\ stkPc' = "row"
  /\ UNCHANGED <<stkCsv, stkOrigin, stkRows, stkRun, stkIdx, stkVariants, stkV, levels,
                 updated, stkFailed, stkSummary, stkExit, stkSet, stkAfterFirst>>

\* if (!productId): a record without an id
StkMissingId ==
  /\ stkPc = "row"
  /\ stkIdx <= Len(stkRows)
  /\ productId \in {Undefined, <<>>}
  /\ LET entry == StockEntry("invalid", stkIdx, 0, 0)
     IN  /\ stkFailed' = Append(stkFailed, entry)
         /\ stkFailures' = appendLog(stkFailures, entry)
  /\ stkIdx' = stkIdx + 1
  /\ UNCHANGED <<stkCsv, stkOrigin, stkRows, stkPc, stkRun, stkVariants, stkV, levels, stkLog,
                 updated, stkSummary, stkExit, stkSet, stkAfterFirst>>

\* a record with an id: GET /admin/products/:id through fetchWithRetry,
\* answered with the product when the request succeeds; the catalog answers no
\* success for an id it does not know
StkFetch ==
  /\ stkPc = "row"
  /\ stkIdx <= Len(stkRows)
  /\ productId \notin {Undefined, <<>>}
  /\ \E answers \in AnswerScripts :
       /\ Fetched(answers) => KnownProduct(productId)
       /\ IF ~Fetched(answers)
            THEN LET entry == StockEntry("fetch_error", stkIdx, 0, 0)
                 IN  /\ stkFailed' = Append(stkFailed, entry)
                     /\ stkFailures' = appendLog(stkFailures, entry)
                     /\ stkIdx' = stkIdx + 1
                     /\ UNCHANGED <<stkPc, stkVariants, stkV>>
            ELSE LET variants == ProductById(productId).variants
                 IN  IF Len(variants) = 0
                       THEN LET entry == StockEntry("no_variants", stkIdx, 0, 0)
                            IN  /\ stkFailed' = Append(stkFailed, entry)
                                /\ stkFailures' = appendLog(stkFailures, entry)
                                /\ stkIdx' = stkIdx + 1
                                /\ UNCHANGED <<stkPc, stkVariants, stkV>>
                       ELSE /\ stkVariants' = variants
                            /\ stkV' = 1
                            /\ stkPc' = "variant"
                            /\ UNCHANGED <<stkIdx, stkFailures, stkFailed>>
  /\ UNCHANGED <<stkCsv, stkOrigin, stkRows, stkRun, levels, stkLog, updated, stkSummary,
                 stkExit, stkSet, stkAfterFirst>>

\* the request succeeds with a body that holds no product: product.product.variants
\* throws a TypeError outside every try block, main rejects and
\* main().catch exits with code 1
StkFetchUnexpectedShape ==
  /\ stkPc = "row"
  /\ stkIdx <= Len(stkRows)
  /\ productId \notin {Undefined, <<>>}
  /\ \E answers \in AnswerScripts : Fetched(answers)
  /\ stkPc' = "crashed"
  /\ stkExit' = 1
  /\ stkAfterFirst' = IF stkRun = 1 THEN levels ELSE stkAfterFirst
  /\ UNCHANGED <<stkCsv, stkOrigin, stkRows, stkRun, stkIdx, stkVariants, stkV, levels,
                 stkLog, stkFailures, updated, stkFailed, stkSummary, stkSet>>

\* a variant without an inventory item
StkNoInventoryItem ==
  /\ stkPc = "variant"
  /\ stkV <= Len(stkVariants)
  /\ inventoryItemId(stkVariants[stkV]) = Undefined
  /\ LET entry == StockEntry("no_inventory_item", stkIdx, stkV, 0)
     IN  /\ stkFailed' = Append(stkFailed, entry)
         /\ stkFailures' = appendLog(stkFailures, entry)
  /\ stkV' = stkV + 1
  /\ UNCHANGED <<stkCsv, stkOrigin, stkRows, stkPc, stkRun, stkIdx, stkVariants, levels,
                 stkLog, updated, stkSummary, stkExit, stkSet, stkAfterFirst>>

\* the update of the variant's stocked quantity through fetchWithRetry
StkUpdate ==
  /\ stkPc = "variant"
  /\ stkV <= Len(stkVariants)
  /\ inventoryItemId(stkVariants[stkV]) # Undefined
  /\ \E answers \in AnswerScripts :
       LET item == inventoryItemId(stkVariants[stkV])
           target == targetStock(stkRow)
       IN  IF ~Fetched(answers)
             THEN LET entry == StockEntry("update_error", stkIdx, stkV, target)
                  IN  /\ stkFailed' = Append(stkFailed, entry)
                      /\ stkFailures' = appendLog(stkFailures, entry)
                      /\ UNCHANGED <<levels, stkLog, updated, stkSet>>
             ELSE LET entry == StockEntry("updated", stkIdx, stkV, target)
                  IN  /\ levels' = SetLevel(levels, item, target)
                      /\ updated' = Append(updated, entry)
                      /\ stkLog' = appendLog(stkLog, entry)
                      /\ stkSet' = IF stkRun = 1 THEN stkSet \cup {item} ELSE stkSet
                      /\ UNCHANGED <<stkFailures, stkFailed>>
  /\ stkPc' = "sleep"
  /\ UNCHANGED <<stkCsv, stkOrigin, stkRows, stkRun, stkIdx, stkVariants, stkV, stkSummary,
                 stkExit, stkAfterFirst>>

\* await sleep(DELAY_MS), then the next variant
StkSleep ==
  /\ stkPc = "sleep"
  /\ stkV' = stkV + 1
  /\ stkPc' = "variant"
  /\ UNCHANGED <<stkCsv, stkOrigin, stkRows, stkRun, stkIdx, stkVariants, levels, stkLog,
                 stkFailures, updated, stkFailed, stkSummary, stkExit, stkSet, stkAfterFirst>>

\* after the last variant: the next record
StkNextRow ==
  /\ stkPc = "variant"
  /\ stkV > Len(stkVariants)
  /\ stkIdx' = stkIdx + 1
  /\ stkPc' = "row"
  /\ UNCHANGED <<stkCsv, stkOrigin, stkRows, stkRun, stkVariants, stkV, levels, stkLog,
                 stkFailures, updated, stkFailed, stkSummary, stkExit, stkSet, stkAfterFirst>>

\* after the last record: the summary file, and main returns
StkSummary ==
  /\ stkPc = "row"
  /\ stkIdx > Len(stkRows)
  /\ stkSummary' = [written |-> TRUE, rows |-> Len(stkRows), updated |-> Len(updated),
                    failed |-> Len(stkFailed)]
  /\ stkExit' = 0
  /\ stkPc' = "done"
  /\ stkAfterFirst' = IF stkRun = 1 THEN levels ELSE stkAfterFirst
  /\ UNCHANGED <<stkCsv, stkOrigin, stkRows, stkRun, stkIdx, stkVariants, stkV, levels,
                 stkLog, stkFailures, updated, stkFailed, stkSet>>


\* ------------------------------------------------- report writer and CSV reader

\* the longest list of records given to the report writer
MaxCsvRecords == 2

\* two columns of the reports, filled from the catalog's texts
CsvHeaders == <<K_handle, K_title>>

\* field values: plain, with the delimiter, with a quote inside, one quote
\* character alone, with a leading space, with a line feed, and empty
CsvValuePool ==
  { <<"x">>,
    <<"a", ";", "b">>,
    <<"q", "\"">>,
    <<"\"">>,
    <<" ", "x">>,
    <<"x", "LF", "y">>,
    <<>> }

CsvRecordPool == [Range(CsvHeaders) -> CsvValuePool]

VARIABLES
  csvRecords,   \* the rows given to writeCsv
  csvContent,   \* the content of the written file
  csvParsed,    \* parseCsv(content).rows
  csvPc         \* "given", "written", "parsed", or "off"

csvVars == <<csvRecords, csvContent, csvParsed, csvPc>>

CsvInit ==
  /\ csvRecords \in SeqsUpTo(CsvRecordPool, MaxCsvRecords)
  /\ csvContent = <<>>
  /\ csvParsed = <<>>
  /\ csvPc = "given"

\* await writeCsv(path, headers, rows)
CsvWrite ==
  /\ csvPc = "given"
  /\ csvContent' = writeCsv(CsvHeaders, csvRecords)
  /\ csvPc' = "written"
  /\ UNCHANGED <<csvRecords, csvParsed>>

\* parseCsv(await fs.readFile(path, "utf8"))
CsvRead ==
  /\ csvPc = "written"
  /\ csvParsed' = parseCsv(csvContent)
  /\ csvPc' = "parsed"
  /\ UNCHANGED <<csvRecords, csvContent>>

\* ------------------------------------------------- slugify and descriptorKey on texts

\* the longest text, in pieces
MaxTextParts == 3

\* pieces of handles and deep-link segments: a word, descriptor, color, length
\* and size tokens behind the separators met in feeds, a precomposed letter
TextPartPool ==
  { W_wand,
    <<"-","m","i","n","i">>,
    <<" ","R","e","d">>,
    <<"_","1","0","c","m">>,
    <<"-","1","2">>,
    <<"-","x","l">>,
    <<"E_ACUTE">>,
    <<"-","-">>,
    <<"r","o","s","e","-">>,
    <<"g","o","l","d">> }

RECURSIVE Concat(_)
Concat(parts) == IF parts = <<>> THEN <<>> ELSE Head(parts) \o Concat(Tail(parts))

\* the values slugify is called with: texts, the empty text, null and undefined
TextPool ==
  { Concat(parts) : parts \in SeqsUpTo(TextPartPool, MaxTextParts) } \cup {Null, Undefined}

VARIABLES
  txText,   \* the value given to slugify
  txSlug,   \* slugify(value)
  txKey,    \* descriptorKey(slug)
  txPc      \* "given", "normalized", "keyed", or "off"

txVars == <<txText, txSlug, txKey, txPc>>

TextInit ==
  /\ txText \in TextPool
  /\ txSlug = <<>>
  /\ txKey = <<>>
  /\ txPc = "given"

\* const handle = slugify(product.handle ?? "")
TextSlugify ==
  /\ txPc = "given"
  /\ txSlug' = slugify(txText)
  /\ txPc' = "normalized"
  /\ UNCHANGED <<txText, txKey>>

\* const looseKey = descriptorKey(handle)
TextDescriptorKey ==
  /\ txPc = "normalized"
  /\ txKey' = descriptorKey(txSlug)
  /\ txPc' = "keyed"
  /\ UNCHANGED <<txText, txSlug>>


\* ------------------------------------------------- the price, from the feed to the create request

\* the longest feed whose prices are followed to the importer
MaxPriceRows == 1

K_normalized_slug == <<"n","o","r","m","a","l","i","z","e","d","_","s","l","u","g">>
K_price == <<"p","r","i","c","e">>
K_in_stock == <<"i","n","_","s","t","o","c","k">>

\* three of the columns of missing-awin-products.csv, in the order of the file
MissingHeaders == <<K_normalized_slug, K_price, K_in_stock>>

\* price texts of a feed: decimals, a decimal comma with a unit, zero, texts
\* without a digit, a lone point, an empty and a missing cell
PricePool ==
  { <<"9",".","5","0">>, <<"7">>, <<"0">>, <<"0",".","0","0","4">>,
    <<"1",",","2","5"," ","g","b","p">>, <<",","5">>, <<"1",".","2",".","3">>,
    <<"n","/","a">>, <<"g","b","p">>, <<".">>, <<"-">>, <<>>, Undefined }

PriceFeedPool ==
  { [deep_link |-> d, in_stock |-> <<"1">>, StockStatus |-> <<>>, price |-> p] :
      d \in { UrlScheme \o <<"x","/">> \o W_wand, <<>> }, p \in PricePool }

\* price ?? "" of the missing record, as toCsvRow's String(value) turns it
\* to text, with a zero in the place of the empty text
PriceText_zero(price) == IF price.nan THEN <<"0">> ELSE StringOfNumber(price)

\* price ?? "" of the missing record, as toCsvRow's String(value) turns it to text
PriceText(price) == IF price.nan THEN <<>> ELSE StringOfNumber(price)

\* a missing record as writeCsv reads it: row[header], turned to text
MissingRow(record) ==
  [h \in Range(MissingHeaders) |->
     CASE h = K_normalized_slug -> record.normalized_slug
       [] h = K_price -> PriceText(record.price)
       [] OTHER -> StringOfBoolean(record.in_stock)]

\* Math.round(price * 100) of the create payload; the prices of the pool have
\* no third decimal of 5, where the binary product can fall below the half
Amount(price) ==
  LET d(k) == IF k <= Len(price.frac) THEN DigitValue(price.frac[k]) ELSE 0
  IN  price.int * 100 + d(1) * 10 + d(2) + (IF d(3) >= 5 THEN 1 ELSE 0)

\* what the importer does with a record of the report when the catalog holds
\* no product of its handle and no request fails
Decision(row) ==
  LET handle == slugify(Field(row, K_normalized_slug))
      price == parsePrice(Field(row, K_price))
  IN  IF handle = <<>> THEN [type |-> "invalid", reason |-> "empty handle", amount |-> 0]
      ELSE IF price.nan THEN [type |-> "invalid", reason |-> "invalid price", amount |-> 0]
      ELSE [type |-> "created", reason |-> "", amount |-> Amount(price)]

VARIABLES
  prFeed,       \* the feed rows, none of which the catalog matches
  prRecords,    \* missingRecords of the detection run
  prContent,    \* the content of missing-awin-products.csv
  prRows,       \* the rows the importer parsed
  prDecisions,  \* per row of the importer: invalid, or created with an amount
  prPc          \* "feed", "detected", "written", "read", "imported", or "off"

prVars == <<prFeed, prRecords, prContent, prRows, prDecisions, prPc>>

PriceInit ==
  /\ prFeed \in SeqsUpTo(PriceFeedPool, MaxPriceRows)
  /\ prRecords = <<>>
  /\ prContent = <<>>
  /\ prRows = <<>>
  /\ prDecisions = <<>>
  /\ prPc = "feed"

\* the feed loop of the detection script against an empty catalog
PriceDetect ==
  /\ prPc = "feed"
  /\ prRecords' = [r \in DOMAIN prFeed |->
                     LET normalizedSlug == slugify(slugSegmentOf(prFeed[r].deep_link))
                     IN  MissingRecord(prFeed[r], normalizedSlug, descriptorKey(normalizedSlug))]
  /\ prPc' = "detected"
  /\ UNCHANGED <<prFeed, prContent, prRows, prDecisions>>

\* await writeCsv(missingCsvPath, [...], missingRecords)
PriceWrite ==
  /\ prPc = "detected"
  /\ prContent' = writeCsv(MissingHeaders, [r \in DOMAIN prRecords |-> MissingRow(prRecords[r])])
  /\ prPc' = "written"
  /\ UNCHANGED <<prFeed, prRecords, prRows, prDecisions>>

\* the importer: parseCsv(csvContent)
PriceRead ==
  /\ prPc = "written"
  /\ prRows' = parseCsv(prContent)
  /\ prPc' = "read"
  /\ UNCHANGED <<prFeed, prRecords, prContent, prDecisions>>

\* the importer's loop over the rows
PriceImport ==
  /\ prPc = "read"
  /\ prDecisions' = [r \in DOMAIN prRows |-> Decision(prRows[r])]
  /\ prPc' = "imported"
  /\ UNCHANGED <<prFeed, prRecords, prContent, prRows>>

\* ------------------------------------------------- fetchAllProducts

\* the largest catalog the listing endpoint holds
MaxCatalogSize == 201

\* const limit = 100
limit == 100

\* the page the listing endpoint answers for ?limit=..&offset=.. from a
\* catalog that does not change: the products offset+1 .. offset+limit
PageOf(products, offset, lim) ==
  SubSeq(products, offset + 1, IF offset + lim < Len(products) THEN offset + lim ELSE Len(products))

\* the loop's exit test with the page size counted as short
LastPage_atMost(products) == Len(products) <= limit

\* products.length < limit
LastPage(products) == Len(products) < limit

\* the statuses of the answers that are not ok
FailureStatuses == {404, 429, 500}

NotReturned == [returned |-> FALSE, value |-> <<>>]

VARIABLES
  faCatalog,    \* the products the endpoint holds, named 1..N
  faOffset,     \* fetchAllProducts' offset
  faResults,    \* fetchAllProducts' results
  faRequests,   \* the requests sent, in order: limit and offset
  faAnswers,    \* the answers, in order: the status, and what an ok body holds
  faPages,      \* data.products ?? [] of the ok answers, in order
  faReturned,   \* whether the call has returned, and the list it returned
  faPc          \* "loop", "returned", "thrown", or "off"

faVars == <<faCatalog, faOffset, faResults, faRequests, faAnswers, faPages, faReturned, faPc>>

FetchInit ==
  /\ faCatalog \in { [i \in 1..n |-> i] : n \in 0..MaxCatalogSize }
  /\ faOffset = 0
  /\ faResults = <<>>
  /\ faRequests = <<>>
  /\ faAnswers = <<>>
  /\ faPages = <<>>
  /\ faReturned = NotReturned
  /\ faPc = "loop"

\* one turn of the loop whose answer is ok: the body holds the page, or holds
\* no products field
FetchPage ==
  /\ faPc = "loop"
  /\ \E kind \in {"page", "noProducts"} :
       LET products == IF kind = "page" THEN PageOf(faCatalog, faOffset, limit) ELSE <<>>
       IN  /\ faRequests' = Append(faRequests, [limit |-> limit, offset |-> faOffset])
           /\ faAnswers' = Append(faAnswers, [status |-> 200, body |-> kind])
           /\ faPages' = Append(faPages, products)
           /\ faResults' = faResults \o products
           /\ IF LastPage(products)
                THEN /\ faPc' = "returned"
                     /\ faReturned' = [returned |-> TRUE, value |-> faResults \o products]
                     /\ faOffset' = faOffset
                ELSE /\ faPc' = "loop"
                     /\ faReturned' = faReturned
                     /\ faOffset' = faOffset + limit
  /\ UNCHANGED faCatalog

\* one turn of the loop whose answer is not ok: the call throws
FetchFails ==
  /\ faPc = "loop"
  /\ \E status \in FailureStatuses :
       /\ faRequests' = Append(faRequests, [limit |-> limit, offset |-> faOffset])
       /\ faAnswers' = Append(faAnswers, [status |-> status, body |-> "text"])
  /\ faPc' = "thrown"
  /\ UNCHANGED <<faCatalog, faOffset, faResults, faPages, faReturned>>

\* ------------------------------------------------- two importer runs at once

\* the longest report of each of the two runs
MaxRaceRows == 1

\* two importer processes started on their reports against one catalog
Runs == {1, 2}

\* the products the catalog holds before the runs, made by neither
SeededCatalog(handles) == [i \in DOMAIN handles |-> [handle |-> handles[i], by |-> 0]]

\* the handles of the catalog's products
HandlesOf(cat) == [i \in DOMAIN cat |-> cat[i].handle]

VARIABLES
  rcRows,       \* per run: the rows of its report
  rcCatalog,    \* the catalog's products in creation order: the handle, and the run that made it
  rcPc,         \* per run: "row", "create" or "done", or "off"
  rcIdx,        \* per run: the row of the record loop
  rcExisting,   \* per run: the last lookup's answer, and the size of the catalog it saw
  rcCreates     \* the create requests in the order they were sent

rcVars == <<rcRows, rcCatalog, rcPc, rcIdx, rcExisting, rcCreates>>

RaceInit ==
  /\ rcRows \in [Runs -> SeqsUpTo(ImportRowPool, MaxRaceRows)]
  /\ rcCatalog \in { SeededCatalog(handles) : handles \in InitialCatalogs }
  /\ rcPc = [r \in Runs |-> "row"]
  /\ rcIdx = [r \in Runs |-> 1]
  /\ rcExisting = [r \in Runs |-> [row |-> 0, count |-> 0, seen |-> 0]]
  /\ rcCreates = <<>>

rcHandle(r) == slugify(rcRows[r][rcIdx[r]].normalized_slug)

\* one record of run r up to its create request: the handle check, the
\* lookup and the price check. The record ends here when its handle is empty,
\* the lookup fails, the catalog holds the handle or the price does not parse
RaceRow(r) ==
  /\ rcPc[r] = "row"
  /\ rcIdx[r] <= Len(rcRows[r])
  /\ IF rcHandle(r) = <<>>
       THEN /\ rcIdx' = [rcIdx EXCEPT ![r] = @ + 1]
            /\ UNCHANGED <<rcPc, rcExisting>>
       ELSE \E answers \in { <<R_ok>>, <<R_500>> } :
              LET products == Lookup(HandlesOf(rcCatalog), rcHandle(r))
              IN  IF ~Fetched(answers)
                    THEN /\ rcIdx' = [rcIdx EXCEPT ![r] = @ + 1]
                         /\ UNCHANGED <<rcPc, rcExisting>>
                    ELSE /\ rcExisting' = [rcExisting EXCEPT ![r] =
                                             [row |-> rcIdx[r], count |-> Len(products),
                                              seen |-> Len(rcCatalog)]]
                         /\ IF AlreadyExists(products)
                                \/ parsePrice(rcRows[r][rcIdx[r]].price).nan
                              THEN /\ rcIdx' = [rcIdx EXCEPT ![r] = @ + 1]
                                   /\ UNCHANGED rcPc
                              ELSE /\ rcPc' = [rcPc EXCEPT ![r] = "create"]
                                   /\ UNCHANGED rcIdx
  /\ UNCHANGED <<rcRows, rcCatalog, rcCreates>>

\* the create request of run r and the rest of the record: the catalog makes
\* the product on a success answer, whether or not it holds the handle
RaceCreate(r) ==
  /\ rcPc[r] = "create"
  /\ \E resp \in {R_ok, R_500} :
       /\ rcCreates' =
            Append(rcCreates,
                   [run |-> r, row |-> rcIdx[r], handle |-> rcHandle(r),
                    lookup |-> rcExisting[r],
                    held |-> \E p \in DOMAIN rcCatalog : rcCatalog[p].handle = rcHandle(r),
                    made |-> Ok(resp)])
       /\ rcCatalog' = IF Ok(resp)
                         THEN Append(rcCatalog, [handle |-> rcHandle(r), by |-> r])
                         ELSE rcCatalog
  /\ rcIdx' = [rcIdx EXCEPT ![r] = @ + 1]
  /\ rcPc' = [rcPc EXCEPT ![r] = "row"]
  /\ UNCHANGED <<rcRows, rcExisting>>

\* run r after its last record
RaceSummary(r) ==
  /\ rcPc[r] = "row"
  /\ rcIdx[r] > Len(rcRows[r])
  /\ rcPc' = [rcPc EXCEPT ![r] = "done"]
  /\ UNCHANGED <<rcRows, rcCatalog, rcIdx, rcExisting, rcCreates>>

\* ------------------------------------------------- importer: the three buckets

\* the longest report whose records are counted
MaxTallyRows == 2

\* One turn of the record loop: which of created, skipped and failed the
\* record is pushed to, in order, whether the catalog made a product, and
\* whether an error left main. lookup is the answer to the idempotency
\* check, resp the answer to the create request, hasProduct whether its body
\* holds a product, logOk and failuresOk whether fs.appendFile succeeds on the
\* log file and on the failures file. A push comes before its append; an append
\* to the log file that fails inside a try block is caught and the record is
\* pushed to failed as well; an append to the failures file that fails is
\* caught by nothing.
RecordOutcome(row, cat, lookup, resp, hasProduct, logOk, failuresOk) ==
  LET handle == slugify(row.normalized_slug)
      Failed(before, made) ==
        [pushes |-> before \o <<"failed">>, made |-> made, threw |-> ~failuresOk]
  IN  IF handle = <<>> THEN Failed(<<>>, FALSE)
      ELSE IF ~Fetched(lookup) THEN Failed(<<>>, FALSE)
      ELSE IF AlreadyExists(Lookup(cat, handle))
        THEN (IF logOk THEN [pushes |-> <<"skipped">>, made |-> FALSE, threw |-> FALSE]
              ELSE Failed(<<"skipped">>, FALSE))
      ELSE IF parsePrice(row.price).nan THEN Failed(<<>>, FALSE)
      ELSE IF ~Ok(resp) THEN Failed(<<>>, FALSE)
      ELSE IF ~hasProduct THEN Failed(<<>>, TRUE)
      ELSE IF logOk THEN [pushes |-> <<"created">>, made |-> TRUE, threw |-> FALSE]
      ELSE Failed(<<"created">>, TRUE)

\* how many of the pushes of all records went to a bucket
RECURSIVE PushCount(_, _)
PushCount(pushes, bucket) ==
  IF pushes = <<>> THEN 0
  ELSE Len(SelectSeq(Head(pushes), LAMBDA b : b = bucket)) + PushCount(Tail(pushes), bucket)

VARIABLES
  tlRows,       \* the rows of the report
  tlCatalog,    \* the handles of the catalog's products
  tlIdx,        \* the row of the record loop
  tlPushes,     \* per finished record: the buckets it was pushed to, in order
  tlInventory,  \* per finished record: "failed" when its inventory-item request failed
  tlSummary,    \* the totals of the summary file
  tlPc          \* "row", "done", "crashed", or "off"

tlVars == <<tlRows, tlCatalog, tlIdx, tlPushes, tlInventory, tlSummary, tlPc>>

NoSummary == [written |-> FALSE, rows |-> 0, created |-> 0, skipped |-> 0, failed |-> 0]

TallyInit ==
  /\ tlRows \in SeqsUpTo(ImportRowPool, MaxTallyRows)
  /\ tlCatalog \in InitialCatalogs
  /\ tlIdx = 1
  /\ tlPushes = <<>>
  /\ tlInventory = <<>>
  /\ tlSummary = NoSummary
  /\ tlPc = "row"

\* one record of the loop, from the handle check to the sleep
TallyRecord ==
  /\ tlPc = "row"
  /\ tlIdx <= Len(tlRows)
  /\ \E lookup \in { <<R_ok>>, <<R_500>> }, resp \in {R_ok, R_500},
        hasProduct \in BOOLEAN, inventory \in { <<R_ok>>, <<R_500>> },
        logOk \in BOOLEAN, failuresOk \in BOOLEAN :
       LET row == tlRows[tlIdx]
           o == RecordOutcome(row, tlCatalog, lookup, resp, hasProduct, logOk, failuresOk)
           asked == o.made /\ hasProduct /\ parseBoolean(row.in_stock)
       IN  /\ tlPushes' = Append(tlPushes, o.pushes)
           /\ tlInventory' = Append(tlInventory,
                                    IF asked /\ ~Fetched(inventory) THEN "failed"
                                    ELSE IF asked THEN "made" ELSE "none")
           /\ tlCatalog' = IF o.made THEN Append(tlCatalog, slugify(row.normalized_slug))
                           ELSE tlCatalog
           /\ tlPc' = IF o.threw THEN "crashed" ELSE "row"
  /\ tlIdx' = tlIdx + 1
  /\ UNCHANGED <<tlRows, tlSummary>>

\* after the last record: the summary file
TallySummary ==
  /\ tlPc = "row"
  /\ tlIdx > Len(tlRows)
  /\ tlSummary' = [written |-> TRUE, rows |-> Len(tlRows),
                   created |-> PushCount(tlPushes, "created"),
                   skipped |-> PushCount(tlPushes, "skipped"),
                   failed |-> PushCount(tlPushes, "failed")]
  /\ tlPc' = "done"
  /\ UNCHANGED <<tlRows, tlCatalog, tlIdx, tlPushes, tlInventory>>
\* ------------------------------------------------- specifications

vars ==
  <<syncVars, fwVars, impVars, stkVars, csvVars, txVars, prVars, faVars, rcVars, tlVars>>

\* a script that is not running
SyncOff ==
  /\ medusaProducts = <<>>
  /\ awinRows = <<>>
  /\ syncPc = "off"
  /\ pIdx = 1
  /\ rIdx = 1
  /\ medusaByHandle = <<>>
  /\ medusaByLooseKey = <<>>
  /\ matchedHandles = {}
  /\ medusaOnlyHandles = <<>>
  /\ missingRecords = <<>>
  /\ looseMatches = <<>>
  /\ stockIssues = <<>>
  /\ medusaOnly = <<>>
  /\ rowMatch = <<>>

ImportOff ==
  /\ impRows = <<>>
  /\ catalog = <<>>
  /\ impPc = "off"
  /\ impRun = 0
  /\ impIdx = 1
  /\ impExisting = [run |-> 0, row |-> 0, count |-> 0]
  /\ impLog = <<>>
  /\ impFailures = <<>>
  /\ created = <<>>
  /\ skipped = <<>>
  /\ failed = <<>>
  /\ impSummary = [written |-> FALSE, rows |-> 0, created |-> 0, skipped |-> 0, failed |-> 0]
  /\ impExit = -1
  /\ createRequests = <<>>
  /\ impMade = <<>>
  /\ impOutcomes = <<>>
  /\ impPrev = [ended |-> "idle", outcomes |-> <<>>]
  /\ impSinceWrite = "none"

StockOff ==
  /\ stkCsv = <<>>
  /\ stkOrigin = "operator"
  /\ stkRows = <<>>
  /\ stkPc = "off"
  /\ stkRun = 0
  /\ stkIdx = 1
  /\ stkVariants = <<>>
  /\ stkV = 1
  /\ levels = [i \in InventoryItems |-> 0]
  /\ stkLog = <<>>
  /\ stkFailures = <<>>
  /\ updated = <<>>
  /\ stkFailed = <<>>
  /\ stkSummary = [written |-> FALSE, rows |-> 0, updated |-> 0, failed |-> 0]
  /\ stkExit = -1
  /\ stkSet = {}
  /\ stkAfterFirst = [i \in InventoryItems |-> 0]

CsvOff ==
  /\ csvRecords = <<>>
  /\ csvContent = <<>>
  /\ csvParsed = <<>>
  /\ csvPc = "off"

TextOff ==
  /\ txText = <<>>
  /\ txSlug = <<>>
  /\ txKey = <<>>
  /\ txPc = "off"

TallyOff ==
  /\ tlRows = <<>>
  /\ tlCatalog = <<>>
  /\ tlIdx = 1
  /\ tlPushes = <<>>
  /\ tlInventory = <<>>
  /\ tlSummary = NoSummary
  /\ tlPc = "off"

RaceOff ==
  /\ rcRows = [r \in Runs |-> <<>>]
  /\ rcCatalog = <<>>
  /\ rcPc = [r \in Runs |-> "off"]
  /\ rcIdx = [r \in Runs |-> 1]
  /\ rcExisting = [r \in Runs |-> [row |-> 0, count |-> 0, seen |-> 0]]
  /\ rcCreates = <<>>

FetchOff ==
  /\ faCatalog = <<>>
  /\ faOffset = 0
  /\ faResults = <<>>
  /\ faRequests = <<>>
  /\ faAnswers = <<>>
  /\ faPages = <<>>
  /\ faReturned = NotReturned
  /\ faPc = "off"

PriceOff ==
  /\ prFeed = <<>>
  /\ prRecords = <<>>
  /\ prContent = <<>>
  /\ prRows = <<>>
  /\ prDecisions = <<>>
  /\ prPc = "off"

\* the detection script
SyncNext ==
  \/ IndexProduct /\ UNCHANGED <<fwVars, impVars, stkVars, csvVars, txVars, prVars, faVars, rcVars, tlVars>>
  \/ SeedMedusaOnly /\ UNCHANGED <<fwVars, impVars, stkVars, csvVars, txVars, prVars, faVars, rcVars, tlVars>>
  \/ ProcessRow /\ UNCHANGED <<fwVars, impVars, stkVars, csvVars, txVars, prVars, faVars, rcVars, tlVars>>
  \/ BuildMedusaOnly /\ UNCHANGED <<fwVars, impVars, stkVars, csvVars, txVars, prVars, faVars, rcVars, tlVars>>

SyncStart ==
  LET detection == SyncInit
      retry == FwIdle
      importer == ImportOff
      reconciler == StockOff
      reports == CsvOff
      texts == TextOff
      prices == PriceOff
      listing == FetchOff
      race == RaceOff
      tally == TallyOff
  IN  detection /\ retry /\ importer /\ reconciler /\ reports /\ texts /\ prices /\ listing /\ race /\ tally

SyncSpec == SyncStart /\ [][SyncNext]_vars

\* fetchWithRetry, called once
RetryNext ==
  \/ RetryCall /\ UNCHANGED <<syncVars, impVars, stkVars, csvVars, txVars, prVars, faVars, rcVars, tlVars>>
  \/ RetryAttempt /\ UNCHANGED <<syncVars, impVars, stkVars, csvVars, txVars, prVars, faVars, rcVars, tlVars>>

RetryStart ==
  LET detection == SyncOff
      retry == FwIdle
      importer == ImportOff
      reconciler == StockOff
      reports == CsvOff
      texts == TextOff
      prices == PriceOff
      listing == FetchOff
      race == RaceOff
      tally == TallyOff
  IN  detection /\ retry /\ importer /\ reconciler /\ reports /\ texts /\ prices /\ listing /\ race /\ tally

RetrySpec == RetryStart /\ [][RetryNext]_vars

\* the importer, started up to MaxImportRuns times on one report
ImportNext ==
  \/ ImpStart /\ UNCHANGED <<syncVars, fwVars, stkVars, csvVars, txVars, prVars, faVars, rcVars, tlVars>>
  \/ ImpSetupFails /\ UNCHANGED <<syncVars, fwVars, stkVars, csvVars, txVars, prVars, faVars, rcVars, tlVars>>
  \/ ImpClearLogs /\ UNCHANGED <<syncVars, fwVars, stkVars, csvVars, txVars, prVars, faVars, rcVars, tlVars>>
  \/ ImpEmptyHandle /\ UNCHANGED <<syncVars, fwVars, stkVars, csvVars, txVars, prVars, faVars, rcVars, tlVars>>
  \/ ImpLookup /\ UNCHANGED <<syncVars, fwVars, stkVars, csvVars, txVars, prVars, faVars, rcVars, tlVars>>
  \/ ImpCreate /\ UNCHANGED <<syncVars, fwVars, stkVars, csvVars, txVars, prVars, faVars, rcVars, tlVars>>
  \/ ImpInventoryItem /\ UNCHANGED <<syncVars, fwVars, stkVars, csvVars, txVars, prVars, faVars, rcVars, tlVars>>
  \/ ImpLogCreated /\ UNCHANGED <<syncVars, fwVars, stkVars, csvVars, txVars, prVars, faVars, rcVars, tlVars>>
  \/ ImpSleep /\ UNCHANGED <<syncVars, fwVars, stkVars, csvVars, txVars, prVars, faVars, rcVars, tlVars>>
  \/ ImpSummary /\ UNCHANGED <<syncVars, fwVars, stkVars, csvVars, txVars, prVars, faVars, rcVars, tlVars>>
  \/ ImpKill /\ UNCHANGED <<syncVars, fwVars, stkVars, csvVars, txVars, prVars, faVars, rcVars, tlVars>>

ImportStart ==
  LET detection == SyncOff
      retry == FwIdle
      importer == ImportInit
      reconciler == StockOff
      reports == CsvOff
      texts == TextOff
      prices == PriceOff
      listing == FetchOff
      race == RaceOff
      tally == TallyOff
  IN  detection /\ retry /\ importer /\ reconciler /\ reports /\ texts /\ prices /\ listing /\ race /\ tally

ImportSpec == ImportStart /\ [][ImportNext]_vars

\* the stock reconciler, started up to MaxStockRuns times on one file
StockNext ==
  \/ StkStart /\ UNCHANGED <<syncVars, fwVars, impVars, csvVars, txVars, prVars, faVars, rcVars, tlVars>>
  \/ StkSetupFails /\ UNCHANGED <<syncVars, fwVars, impVars, csvVars, txVars, prVars, faVars, rcVars, tlVars>>
  \/ StkClearLogs /\ UNCHANGED <<syncVars, fwVars, impVars, csvVars, txVars, prVars, faVars, rcVars, tlVars>>
  \/ StkMissingId /\ UNCHANGED <<syncVars, fwVars, impVars, csvVars, txVars, prVars, faVars, rcVars, tlVars>>
  \/ StkFetch /\ UNCHANGED <<syncVars, fwVars, impVars, csvVars, txVars, prVars, faVars, rcVars, tlVars>>
  \/ StkFetchUnexpectedShape /\ UNCHANGED <<syncVars, fwVars, impVars, csvVars, txVars, prVars, faVars, rcVars, tlVars>>
  \/ StkNoInventoryItem /\ UNCHANGED <<syncVars, fwVars, impVars, csvVars, txVars, prVars, faVars, rcVars, tlVars>>
  \/ StkUpdate /\ UNCHANGED <<syncVars, fwVars, impVars, csvVars, txVars, prVars, faVars, rcVars, tlVars>>
  \/ StkSleep /\ UNCHANGED <<syncVars, fwVars, impVars, csvVars, txVars, prVars, faVars, rcVars, tlVars>>
  \/ StkNextRow /\ UNCHANGED <<syncVars, fwVars, impVars, csvVars, txVars, prVars, faVars, rcVars, tlVars>>
  \/ StkSummary /\ UNCHANGED <<syncVars, fwVars, impVars, csvVars, txVars, prVars, faVars, rcVars, tlVars>>

StockStart ==
  LET detection == SyncOff
      retry == FwIdle
      importer == ImportOff
      reconciler == StockInit
      reports == CsvOff
      texts == TextOff
      prices == PriceOff
      listing == FetchOff
      race == RaceOff
      tally == TallyOff
  IN  detection /\ retry /\ importer /\ reconciler /\ reports /\ texts /\ prices /\ listing /\ race /\ tally

StockSpec == StockStart /\ [][StockNext]_vars

\* the report writer followed by the CSV reader, on one list of records
CsvNext ==
  \/ CsvWrite /\ UNCHANGED <<syncVars, fwVars, impVars, stkVars, txVars, prVars, faVars, rcVars, tlVars>>
  \/ CsvRead /\ UNCHANGED <<syncVars, fwVars, impVars, stkVars, txVars, prVars, faVars, rcVars, tlVars>>

CsvStart ==
  LET detection == SyncOff
      retry == FwIdle
      importer == ImportOff
      reconciler == StockOff
      reports == CsvInit
      texts == TextOff
      prices == PriceOff
      listing == FetchOff
      race == RaceOff
      tally == TallyOff
  IN  detection /\ retry /\ importer /\ reconciler /\ reports /\ texts /\ prices /\ listing /\ race /\ tally

CsvSpec == CsvStart /\ [][CsvNext]_vars

\* slugify followed by descriptorKey, on one text
TextNext ==
  \/ TextSlugify /\ UNCHANGED <<syncVars, fwVars, impVars, stkVars, csvVars, prVars, faVars, rcVars, tlVars>>
  \/ TextDescriptorKey /\ UNCHANGED <<syncVars, fwVars, impVars, stkVars, csvVars, prVars, faVars, rcVars, tlVars>>

TextStart ==
  LET detection == SyncOff
      retry == FwIdle
      importer == ImportOff
      reconciler == StockOff
      reports == CsvOff
      texts == TextInit
      prices == PriceOff
      listing == FetchOff
      race == RaceOff
      tally == TallyOff
  IN  detection /\ retry /\ importer /\ reconciler /\ reports /\ texts /\ prices /\ listing /\ race /\ tally

TextSpec == TextStart /\ [][TextNext]_vars

\* the price of a feed row, from the detection script through the report to
\* the importer
PriceNext ==
  \/ PriceDetect /\ UNCHANGED <<syncVars, fwVars, impVars, stkVars, csvVars, txVars, faVars, rcVars, tlVars>>
  \/ PriceWrite /\ UNCHANGED <<syncVars, fwVars, impVars, stkVars, csvVars, txVars, faVars, rcVars, tlVars>>
  \/ PriceRead /\ UNCHANGED <<syncVars, fwVars, impVars, stkVars, csvVars, txVars, faVars, rcVars, tlVars>>
  \/ PriceImport /\ UNCHANGED <<syncVars, fwVars, impVars, stkVars, csvVars, txVars, faVars, rcVars, tlVars>>

PriceStart ==
  LET detection == SyncOff
      retry == FwIdle
      importer == ImportOff
      reconciler == StockOff
      reports == CsvOff
      texts == TextOff
      prices == PriceInit
      listing == FetchOff
      race == RaceOff
      tally == TallyOff
  IN  detection /\ retry /\ importer /\ reconciler /\ reports /\ texts /\ prices /\ listing /\ race /\ tally

PriceSpec == PriceStart /\ [][PriceNext]_vars

\* fetchAllProducts, called once
FetchNext ==
  \/ FetchPage /\ UNCHANGED <<syncVars, fwVars, impVars, stkVars, csvVars, txVars, prVars, rcVars, tlVars>>
  \/ FetchFails /\ UNCHANGED <<syncVars, fwVars, impVars, stkVars, csvVars, txVars, prVars, rcVars, tlVars>>

FetchStart ==
  LET detection == SyncOff
      retry == FwIdle
      importer == ImportOff
      reconciler == StockOff
      reports == CsvOff
      texts == TextOff
      prices == PriceOff
      listing == FetchInit
      race == RaceOff
      tally == TallyOff
  IN  detection /\ retry /\ importer /\ reconciler /\ reports /\ texts /\ prices /\ listing /\ race /\ tally

FetchSpec == FetchStart /\ [][FetchNext]_vars

\* two importer runs whose steps interleave
RaceNext ==
  \/ \E r \in Runs : RaceRow(r)
        /\ UNCHANGED <<syncVars, fwVars, impVars, stkVars, csvVars, txVars, prVars, faVars, tlVars>>
  \/ \E r \in Runs : RaceCreate(r)
        /\ UNCHANGED <<syncVars, fwVars, impVars, stkVars, csvVars, txVars, prVars, faVars, tlVars>>
  \/ \E r \in Runs : RaceSummary(r)
        /\ UNCHANGED <<syncVars, fwVars, impVars, stkVars, csvVars, txVars, prVars, faVars, tlVars>>

RaceStart ==
  LET detection == SyncOff
      retry == FwIdle
      importer == ImportOff
      reconciler == StockOff
      reports == CsvOff
      texts == TextOff
      prices == PriceOff
      listing == FetchOff
      race == RaceInit
      tally == TallyOff
  IN  detection /\ retry /\ importer /\ reconciler /\ reports /\ texts /\ prices /\ listing /\ race /\ tally

RaceSpec == RaceStart /\ [][RaceNext]_vars

\* the record loop of one importer run and its summary
TallyNext ==
  \/ TallyRecord
        /\ UNCHANGED <<syncVars, fwVars, impVars, stkVars, csvVars, txVars, prVars, faVars, rcVars>>
  \/ TallySummary
        /\ UNCHANGED <<syncVars, fwVars, impVars, stkVars, csvVars, txVars, prVars, faVars, rcVars>>

TallyStart ==
  LET detection == SyncOff
      retry == FwIdle
      importer == ImportOff
      reconciler == StockOff
      reports == CsvOff
      texts == TextOff
      prices == PriceOff
      listing == FetchOff
      race == RaceOff
      tally == TallyInit
  IN  detection /\ retry /\ importer /\ reconciler /\ reports /\ texts /\ prices /\ listing
        /\ race /\ tally

TallySpec == TallyStart /\ [][TallyNext]_vars

\* ------------------------------------------------- properties: detection

IsPrefix(s, t) == Len(s) <= Len(t) /\ SubSeq(t, 1, Len(s)) = s

\* catalog product p (a position of medusaProducts) was matched by a feed row
MatchedByFeed(p) == \E i \in DOMAIN rowMatch : rowMatch[i].product = p

\* catalog product p is listed in the catalog-only report
ListedCatalogOnly(p) == \E j \in DOMAIN medusaOnly : medusaOnly[j].id = medusaProducts[p].id

\* C1: after a detection run every fetched catalog product is either matched by
\* some feed row or listed in the catalog-only report, never both and never
\* neither. The run refutes it: a product whose handle has the empty slug, or
\* whose slug a later product repeats, is in neither.
C1_Partition ==
  syncPc = "done" =>
    \A p \in DOMAIN medusaProducts : MatchedByFeed(p) # ListedCatalogOnly(p)

\* the slug and the comparison key the feed loop computes for a row
RowSlug(row) == slugify(slugSegmentOf(row.deep_link))
RowKey(row) == descriptorKey(RowSlug(row))

\* the catalog products that share a comparison key
SharingKey(key) ==
  { p \in DOMAIN medusaProducts : descriptorKey(slugify(medusaProducts[p].handle)) = key }

\* a feed row without an exact slug match whose comparison key two or more
\* catalog products share
Ambiguous(row) ==
  /\ \A p \in DOMAIN medusaProducts : slugify(medusaProducts[p].handle) # RowSlug(row)
  /\ Cardinality(SharingKey(RowKey(row))) >= 2

\* C10: the step of the feed loop that handles an ambiguous row takes no
\* product for it, appends one Missing record carrying the row's slug, records
\* no loose match and leaves the catalog-only pool and the matched handles as
\* they were.
C10_AmbiguousIsMissing ==
  [][(syncPc = "feed" /\ rIdx <= Len(awinRows) /\ rIdx' = rIdx + 1
        /\ Ambiguous(awinRows[rIdx]))
       => /\ rowMatch'[rIdx] = [kind |-> "none", product |-> 0]
          /\ Len(missingRecords') = Len(missingRecords) + 1
          /\ missingRecords'[Len(missingRecords')].normalized_slug = RowSlug(awinRows[rIdx])
          /\ looseMatches' = looseMatches
          /\ medusaOnlyHandles' = medusaOnlyHandles
          /\ matchedHandles' = matchedHandles]_vars

\* an ambiguous row has been handled while the pool held the products that
\* share its key
C10_AmbiguousRowHandled ==
  \E i \in DOMAIN rowMatch :
    /\ Ambiguous(awinRows[i])
    /\ \E p \in SharingKey(RowKey(awinRows[i])) :
         \E j \in DOMAIN medusaOnlyHandles :
           medusaOnlyHandles[j] = slugify(medusaProducts[p].handle)

\* ------------------------------------------------- properties: fetchWithRetry

\* C9: fetchWithRetry makes a further attempt only after an answer with status
\* 429. The call refutes it: the test looks for the text 429 anywhere in the
\* error message, which carries the body of the answer.
C9_RetriesOnlyOn429 ==
  \A k \in 1..(Len(fwResponses) - 1) : fwResponses[k].status = 429

\* ------------------------------------------------- properties: importer

NoFailedRequest(outcomes) ==
  \A k \in DOMAIN outcomes : outcomes[k] \notin {"lookup_error", "create_error"}

\* two runs in sequence have both reached the summary
TwoRunsDone == impPc = "done" /\ impPrev.ended = "done"

\* a record the create request can be sent for
Importable(row) == slugify(row.normalized_slug) # <<>> /\ ~parsePrice(row.price).nan

C3_CreateOnlyAfterEmptyLookup ==
  /\ \A k \in DOMAIN createRequests :
       createRequests[k].lookup = [run |-> impRun, row |-> createRequests[k].row, count |-> 0]
  /\ \A i, j \in DOMAIN impMade : i # j => impMade[i].handle # impMade[j].handle

\* a run has created a handle and has skipped a later record with the same
\* handle
C3_RepeatedSlugSkipped ==
  \E k \in DOMAIN impLog :
    /\ impLog[k].type = "skip"
    /\ \E c \in DOMAIN impMade :
         impMade[c].handle = impLog[k].handle /\ impMade[c].row < impLog[k].row

\* how many entries of the two files are about record i
EntriesAbout(i) ==
  Cardinality({ k \in DOMAIN impLog : impLog[k].row = i })
    + Cardinality({ k \in DOMAIN impFailures : impFailures[k].row = i })

\* the products this run created that have no created entry
Unlogged ==
  { c \in DOMAIN impMade :
      ~\E k \in DOMAIN impLog : impLog[k].type = "created" /\ impLog[k].row = impMade[c].row }

\* C6: at every point of a run each finished record has exactly one entry, of
\* one of the five types, and at most one product created by the run, the one
\* of the record in progress, has no created entry. The run refutes the second
\* part: a create answer without a product leaves create_error for a product
\* the catalog holds.
C6_OneEntryPerRecord ==
  /\ \A i \in 1..(impIdx - 1) : EntriesAbout(i) = 1
  /\ \A k \in DOMAIN impLog : impLog[k].type \in {"created", "skip"}
  /\ \A k \in DOMAIN impFailures :
       impFailures[k].type \in {"invalid", "lookup_error", "create_error"}
  /\ Cardinality(Unlogged) <= 1
  /\ \A c \in Unlogged : impMade[c].row = impIdx

\* C7 as stated: no step ever removes or rewrites an entry of the two files.
C7_AppendOnly ==
  [][IsPrefix(impLog, impLog') /\ IsPrefix(impFailures, impFailures')]_vars

\* C7 amended: within a run, after its start has deleted both files, no step
\* removes or rewrites an entry; the start of a run (the step that leaves the
\* setup) is the only one that does.
C7_AppendOnlyWithinRun ==
  [][impPc # "setup" => (IsPrefix(impLog, impLog') /\ IsPrefix(impFailures, impFailures'))]_vars

\* a run that had written entries was terminated, the importer was started
\* again, and both files are empty
C7_RestartClearedEntries ==
  /\ impPrev.ended = "killed"
  /\ Len(impPrev.outcomes) >= 1
  /\ impPc = "row" /\ impIdx = 1
  /\ impLog = <<>> /\ impFailures = <<>>

\* ------------------------------------------------- properties: stock reconciler

\* the catalog product a record of the detection report is about
ProductByHandle(handle) == CHOOSE p \in AdminProducts : p.handle = handle

ItemsOf(product) ==
  { inventoryItemId(product.variants[v]) : v \in DOMAIN product.variants } \ {Undefined}

\* C4: after a run over a report the detection script wrote, the inventory
\* item of every variant of every reported product holds 10 (the detection
\* script reports only products the feed marks in stock), unless a request for
\* that record failed. The run refutes it: the reconciler reads the columns id
\* and awin_stock, the report holds handle, title, awin_in_stock and
\* medusa_stock, so every record is invalid for its missing id.
C4_DetectionReportApplied ==
  (stkOrigin = "detection" /\ stkPc = "done") =>
    \A r \in DOMAIN stkRows :
      \/ \A item \in ItemsOf(ProductByHandle(Field(stkRows[r], K_handle))) : levels[item] = 10
      \/ \E k \in DOMAIN stkFailed :
           stkFailed[k].row = r /\ stkFailed[k].type \in {"fetch_error", "update_error"}

\* no two records of the file give one product different targets
OneTargetPerProduct ==
  \A r, s \in DOMAIN stkRows :
    Field(stkRows[r], K_id) = Field(stkRows[s], K_id)
      => targetStock(stkRows[r]) = targetStock(stkRows[s])

\* C5: when the reconciler is started again on the same file, every inventory
\* level the first run set keeps, at every point of the later runs, the value
\* it had when the first run ended.
C5_SecondRunKeepsLevels ==
  (stkRun >= 2 /\ OneTargetPerProduct) =>
    \A item \in stkSet : levels[item] = stkAfterFirst[item]

\* the second run has ended after it repeated an update of the first run
C5_SecondRunUpdated ==
  /\ stkRun = 2 /\ stkPc = "done" /\ OneTargetPerProduct
  /\ \E k \in DOMAIN stkLog :
       /\ stkLog[k].type = "updated"
       /\ inventoryItemId(ProductById(Field(stkRows[stkLog[k].row], K_id)).variants[stkLog[k].variant])
            \in stkSet
  /\ \E item \in stkSet : levels[item] = 10

\* C8: a run that has entered the record loop and has ended has handled every
\* record, has written the summary and has exit code 0. The reconciler refutes
\* it: a success answer without a product throws outside every try block.
C8_LoopReachesSummary ==
  (stkPc \in {"done", "crashed"}) =>
    /\ stkIdx > Len(stkRows)
    /\ stkSummary.written
    /\ stkExit = 0

\* ------------------------------------------------- properties: detection, matching

\* the catalog products whose normalized handle is the slug
WithSlug(slug) ==
  { p \in DOMAIN medusaProducts : slugify(medusaProducts[p].handle) = slug }

\* feed row i was matched with kind exact to a product of its slug, and neither
\* the Missing report, the loose matches, the catalog-only pool nor the
\* catalog-only report holds the record or a product of that slug
ExactlyMatched(i) ==
  LET slug == RowSlug(awinRows[i])
  IN  /\ rowMatch[i].kind = "exact"
      /\ rowMatch[i].product \in WithSlug(slug)
      /\ \A j \in DOMAIN missingRecords : missingRecords[j].normalized_slug # slug
      /\ \A j \in DOMAIN looseMatches : looseMatches[j].row # i
      /\ \A j \in DOMAIN medusaOnlyHandles : medusaOnlyHandles[j] # slug
      /\ \A j \in DOMAIN medusaOnly :
           /\ medusaOnly[j].handle # slug
           /\ \A p \in WithSlug(slug) : medusaOnly[j].id # medusaProducts[p].id

FlagIn(row, flags) ==
  (IF row.in_stock \in {Undefined, Null} THEN <<>> ELSE ToLowerCase(row.in_stock)) \in flags

\* the StockStatus cell is the sentinel 100
HasSentinel(row) == row.StockStatus = <<"1","0","0">>

Flags_1_true_yes == { <<"1">>, <<"t","r","u","e">>, <<"y","e","s">> }
Flags_1_true_yes_y == Flags_1_true_yes \cup { <<"y">> }

\* the step of the feed loop that handles a row appends one StockMismatch
\* entry, with awin_in_stock = true, for the matched product when the row is
\* matched, the feed marks it in stock (one of the flags, or the sentinel) and
\* the product's summed variant quantities are <= 0; otherwise the step leaves
\* the StockMismatch entries as they were
StockMismatchStep(flags) ==
  (syncPc = "feed" /\ rIdx <= Len(awinRows) /\ rIdx' = rIdx + 1) =>
    LET row == awinRows[rIdx]
        p == rowMatch'[rIdx].product
    IN  IF /\ p # 0
           /\ FlagIn(row, flags) \/ HasSentinel(row)
           /\ getMedusaInventory(medusaProducts[p]) <= 0
          THEN /\ Len(stockIssues') = Len(stockIssues) + 1
               /\ SubSeq(stockIssues', 1, Len(stockIssues)) = stockIssues
               /\ stockIssues'[Len(stockIssues')].awin_in_stock = TRUE
               /\ stockIssues'[Len(stockIssues')].handle = medusaProducts[p].handle
          ELSE stockIssues' = stockIssues

\* C12 as stated: a matched feed record gets a StockMismatch entry exactly when
\* its in_stock flag is 1, true or yes, or its StockStatus is 100, and the
\* matched product's summed inventory is <= 0; unmatched records get none.
C12_StockMismatchListedFlags == [][StockMismatchStep(Flags_1_true_yes)]_vars

\* C12 amended: the same with the flag values the script accepts: 1, true, yes
\* and y, compared without regard to case.
C12_StockMismatchAcceptedFlags == [][StockMismatchStep(Flags_1_true_yes_y)]_vars

\* a row marked in stock by the sentinel and a row marked by the flag y have
\* both been matched to products without stock and have both been reported
C12_MismatchesReported ==
  /\ \E i \in DOMAIN rowMatch :
       /\ rowMatch[i].product # 0
       /\ HasSentinel(awinRows[i]) /\ ~FlagIn(awinRows[i], Flags_1_true_yes_y)
       /\ getMedusaInventory(medusaProducts[rowMatch[i].product]) <= 0
       /\ \E j \in DOMAIN stockIssues :
            stockIssues[j].handle = medusaProducts[rowMatch[i].product].handle
  /\ \E i \in DOMAIN rowMatch :
       /\ rowMatch[i].product # 0
       /\ FlagIn(awinRows[i], { <<"y">> })
       /\ getMedusaInventory(medusaProducts[rowMatch[i].product]) <= 0
       /\ \E j \in DOMAIN stockIssues :
            stockIssues[j].handle = medusaProducts[rowMatch[i].product].handle

\* ------------------------------------------------- properties: detection, buckets

\* catalog product p has an entry in the StockMismatch or the LooseMatch bucket
InStockMismatch(p) ==
  \E j \in DOMAIN stockIssues : stockIssues[j].handle = medusaProducts[p].handle
InLooseMatch(p) ==
  \E j \in DOMAIN looseMatches : looseMatches[j].medusa_handle = medusaProducts[p].handle

\* no catalog product is in the catalog-only report and in one of the two
\* buckets of matched pairs
CatalogOnlyApart ==
  \A p \in DOMAIN medusaProducts :
    ListedCatalogOnly(p) => ~InStockMismatch(p) /\ ~InLooseMatch(p)

\* what the step for one feed record adds to
AddsMissing == Len(missingRecords') > Len(missingRecords)
AddsStockMismatch == Len(stockIssues') > Len(stockIssues)
AddsLooseMatch == Len(looseMatches') > Len(looseMatches)

\* C13 as stated: the step for a feed record adds to at most one of Missing,
\* StockMismatch and LooseMatch, and no catalog product is in CatalogOnly and
\* also in StockMismatch or LooseMatch.
C13_BucketsExclusive ==
  /\ [][/\ ~(AddsMissing /\ AddsStockMismatch)
        /\ ~(AddsMissing /\ AddsLooseMatch)
        /\ ~(AddsStockMismatch /\ AddsLooseMatch)]_vars
  /\ []CatalogOnlyApart

\* C13 amended: a record that adds to Missing adds to neither of the two
\* buckets of matched pairs, and no catalog product is in CatalogOnly and also
\* in StockMismatch or LooseMatch; a loosely matched record may add to both
\* LooseMatch and StockMismatch.
C13_MissingExclusive ==
  /\ [][AddsMissing => ~AddsStockMismatch /\ ~AddsLooseMatch]_vars
  /\ []CatalogOnlyApart

\* a run has ended in which a loosely matched record is in LooseMatch and in
\* StockMismatch, beside a Missing record and a catalog-only product
C13_LooseAndStockMismatch ==
  /\ syncPc = "done"
  /\ missingRecords # <<>>
  /\ medusaOnly # <<>>
  /\ \E j \in DOMAIN looseMatches :
       LET i == looseMatches[j].row
           p == rowMatch[i].product
       IN  /\ awinInStockOf(awinRows[i])
           /\ getMedusaInventory(medusaProducts[p]) <= 0
           /\ InStockMismatch(p)

\* ------------------------------------------------- properties: CSV

\* C14: parsing the file the report writer wrote returns as many records as
\* were given, each field equal to the given text. The round trip refutes it
\* for a field with a leading space (trimmed), with a line feed (the file is
\* split into lines before the quotes are read) and for a field that is one
\* quote character (read back as two).
C14_CsvRoundTrip ==
  csvPc = "parsed" =>
    /\ Len(csvParsed) = Len(csvRecords)
    /\ \A r \in DOMAIN csvRecords :
         \A h \in Range(CsvHeaders) : csvParsed[r][h] = csvRecords[r][h]

\* ------------------------------------------------- properties: detection, order

\* the handled feed rows, in feed order, that found no product
RECURSIVE UnmatchedRowsUpTo(_)
UnmatchedRowsUpTo(n) ==
  IF n = 0 THEN <<>>
  ELSE IF rowMatch[n].product = 0 THEN Append(UnmatchedRowsUpTo(n - 1), n)
  ELSE UnmatchedRowsUpTo(n - 1)

\* the handled feed rows, in feed order, that have a StockMismatch entry
RECURSIVE MismatchRowsUpTo(_)
MismatchRowsUpTo(n) ==
  IF n = 0 THEN <<>>
  ELSE IF /\ rowMatch[n].product # 0
          /\ awinInStockOf(awinRows[n])
          /\ getMedusaInventory(medusaProducts[rowMatch[n].product]) <= 0
         THEN Append(MismatchRowsUpTo(n - 1), n)
  ELSE MismatchRowsUpTo(n - 1)

\* where the catalog fetch returned the product with this id
FetchPosition(id) == CHOOSE p \in DOMAIN medusaProducts : medusaProducts[p].id = id

\* C15: the entries of Missing, StockMismatch and LooseMatch are in the order
\* of the feed records they come from, and the entries of CatalogOnly are in
\* the order the catalog fetch returned their products. The run refutes the
\* last part: a product that repeats the slug of an earlier one is listed at
\* the earlier one's place.
C15_BucketOrder ==
  /\ LET rows == UnmatchedRowsUpTo(Len(rowMatch))
     IN  /\ Len(missingRecords) = Len(rows)
         /\ \A j \in DOMAIN rows : missingRecords[j].deep_link = awinRows[rows[j]].deep_link
  /\ LET rows == MismatchRowsUpTo(Len(rowMatch))
     IN  /\ Len(stockIssues) = Len(rows)
         /\ \A j \in DOMAIN rows :
              stockIssues[j].handle = medusaProducts[rowMatch[rows[j]].product].handle
  /\ \A j, k \in DOMAIN looseMatches : j < k => looseMatches[j].row < looseMatches[k].row
  /\ \A j, k \in DOMAIN medusaOnly :
       j < k => FetchPosition(medusaOnly[j].id) < FetchPosition(medusaOnly[k].id)

\* ------------------------------------------------- properties: comparison key

\* the tokens of a slug
TokensOf(slug) == SelectSeq(Split(slug, "-"), NonEmpty)

\* an integer, bare or followed by one of the units cm, mm, in, inch
BareOrUnitInteger(token) ==
  LET digits == TakeDigits(token)
  IN  /\ digits # <<>>
      /\ SubSeq(token, Len(digits) + 1, Len(token)) \in
           { <<>>, <<"c","m">>, <<"m","m">>, <<"i","n">>, <<"i","n","c","h">> }

\* a clothing size
ClothingSize(token) ==
  token \in { <<"x","s">>, <<"s","m">>, <<"m","d">>, <<"l","g">>, <<"x","l">>,
              <<"x","x","l">>, <<"x","x","x","l">> }

\* a token the comparison key leaves out
Dropped(token) ==
  \/ token \in DESCRIPTOR_WORDS
  \/ token \in COLOR_WORDS
  \/ BareOrUnitInteger(token)
  \/ ClothingSize(token)

Retained(token) == ~Dropped(token)

\* C16: the key of a slug is its retained tokens joined by hyphens, in their
\* order; when no token is retained the key is the slug itself, and the key of
\* a non-empty slug is not empty.
C16_ComparisonKey ==
  txPc = "keyed" =>
    /\ LET retained == SelectSeq(TokensOf(txSlug), Retained)
       IN  txKey = IF retained = <<>> THEN txSlug ELSE Join(retained, <<"-">>)
    /\ txSlug # <<>> => txKey # <<>>

\* a slug of several tokens, all of them dropped, has got itself as its key
C16_FallbackTaken ==
  /\ txPc = "keyed"
  /\ Len(TokensOf(txSlug)) >= 2
  /\ \A t \in DOMAIN TokensOf(txSlug) : Dropped(TokensOf(txSlug)[t])
  /\ txKey = txSlug

\* ------------------------------------------------- properties: slug

\* the form of a slug: a-z, 0-9 and hyphens, no hyphen first or last, no two
\* hyphens side by side
SlugForm(s) ==
  /\ \A i \in DOMAIN s : IsAlnum(s[i]) \/ s[i] = "-"
  /\ s # <<>> => s[1] # "-" /\ s[Len(s)] # "-"
  /\ \A i \in 1..(Len(s) - 1) : ~(s[i] = "-" /\ s[i + 1] = "-")

\* C17: slugify returns the empty string for the empty text, null and
\* undefined, and in every case a string in the form of a slug; slugify of the
\* slug returns the slug, and a text already in that form is returned as it is.
C17_Normalize ==
  txPc \in {"normalized", "keyed"} =>
    /\ txText \in {<<>>, Null, Undefined} => txSlug = <<>>
    /\ SlugForm(txSlug)
    /\ slugify(txSlug) = txSlug
    /\ (txText \notin {Null, Undefined} /\ SlugForm(txText)) => txSlug = txText

\* a text with capitals, a precomposed letter, runs of separators and hyphens
\* at its ends has been normalized to a slug of several tokens
C17_TextNormalized ==
  /\ txPc = "normalized"
  /\ txText \notin {Null, Undefined}
  /\ ~SlugForm(txText)
  /\ Len(txText) >= 2 /\ txText[1] = "-" /\ txText[2] = "-"
  /\ \E i \in DOMAIN txText : txText[i] = "E_ACUTE"
  /\ \E i \in DOMAIN txText : txText[i] \in Range(UpperLetters)
  /\ Len(TokensOf(txSlug)) >= 2

\* ------------------------------------------------- properties: importer requests

\* C18: a create request that is answered with 429 is tried again, up to
\* retries further times, so a request whose last answer is 429 has had
\* retries + 1 attempts before its failure is recorded. The importer refutes
\* it: the create request is sent with fetch, not through fetchWithRetry, and
\* the first 429 is recorded as create_error.
C18_CreateRetriedOn429 ==
  \A k \in DOMAIN createRequests :
    LET answers == createRequests[k].answers
    IN  /\ \A n \in DOMAIN answers : (answers[n].status = 429 /\ n <= retries) => n < Len(answers)
        /\ answers[Len(answers)].status = 429 => Len(answers) = retries + 1

\* C19: a finished record whose handle is empty or whose price cannot be
\* parsed is classified invalid, and no lookup was sent for it (no skip, no
\* lookup_error, and the last lookup answer is not about it). The importer
\* refutes it: the price is parsed after the lookup.
C19_InvalidWithoutRequest ==
  \A k \in DOMAIN impOutcomes :
    ~Importable(impRows[k]) =>
      /\ impOutcomes[k] = "invalid"
      /\ ~(impExisting.run = impRun /\ impExisting.row = k)

\* a step that sends a write request to the catalog: the product create, or
\* the inventory-item create
SendsWrite ==
  \/ impPc = "create" /\ impPc' \in {"inventory", "logCreated", "sleep"}
  \/ impPc = "inventory" /\ impPc' = "logCreated"

\* C20: no write request of a run is sent while the run's last write request
\* has not been followed by a sleep. The importer refutes it: the
\* inventory-item request follows the product create of the same record at
\* once; the sleep comes at the end of the record.
C20_SleepBetweenWrites ==
  [][SendsWrite => impSinceWrite # "write"]_vars

\* ------------------------------------------------- properties: retry bound

\* the delay fetchWithRetry sleeps after its k-th failed attempt
RECURSIVE BackoffDelay(_)
BackoffDelay(k) == IF k = 1 THEN initialDelay ELSE 2 * BackoffDelay(k - 1)

AllRateLimited == \A k \in DOMAIN fwResponses : fwResponses[k].status = 429

\* C21: a call of fetchWithRetry makes at most retries + 1 attempts; the delays
\* it sleeps double from the initial delay, so that against a server that
\* answers 429 every time the call sleeps 150, 300, 600, 1200 and 2400 ms,
\* makes its sixth attempt and throws; and an attempt that succeeds (fetchJson
\* resolves) is the last one, the call returning at it.
C21_BoundedBackoff ==
  /\ Len(fwResponses) <= retries + 1
  /\ Len(fwSleeps) <= retries
  /\ \A k \in DOMAIN fwSleeps : fwSleeps[k] = BackoffDelay(k)
  /\ fwState = "running" => Len(fwSleeps) = Len(fwResponses)
  /\ (AllRateLimited /\ Len(fwResponses) = retries + 1)
       => fwState = "thrown" /\ fwSleeps = <<150, 300, 600, 1200, 2400>>
  /\ (AllRateLimited /\ fwState = "thrown") => Len(fwResponses) = retries + 1
  /\ \A k \in DOMAIN fwResponses :
       Resolves(fwResponses[k]) => k = Len(fwResponses) /\ fwState = "returned"
  /\ fwState = "returned" => Resolves(fwResponses[Len(fwResponses)])

\* a call has thrown after six rate-limit answers and five sleeps
C21_RetriesExhausted ==
  /\ fwState = "thrown" /\ AllRateLimited
  /\ Len(fwResponses) = retries + 1
  /\ Len(fwSleeps) = retries

\* ------------------------------------------------- properties: unparsable price

Unparsable(text) == parsePrice(text).nan

\* C22: a feed row whose price cannot be parsed has an empty price in the
\* Missing report, is read by the importer with an empty price and is found
\* invalid; the importer sends a create request only for a row whose price
\* parses, and the amount of the request is that of the price of the feed,
\* never a default.
C22_UnparsablePriceNotCreated ==
  /\ prPc \in {"detected", "written", "read", "imported"} =>
       \A r \in DOMAIN prFeed :
         Unparsable(prFeed[r].price) => MissingRow(prRecords[r])[K_price] = <<>>
  /\ prPc \in {"read", "imported"} =>
       /\ Len(prRows) = Len(prFeed)
       /\ \A r \in DOMAIN prFeed :
            Unparsable(prFeed[r].price) => Field(prRows[r], K_price) = <<>>
  /\ prPc = "imported" =>
       \A r \in DOMAIN prDecisions :
         /\ Unparsable(prFeed[r].price) => prDecisions[r].type = "invalid"
         /\ prDecisions[r].type = "created" =>
              /\ ~Unparsable(Field(prRows[r], K_price))
              /\ prDecisions[r].amount = Amount(parsePrice(prFeed[r].price))

\* the importer has found invalid, for its price, a row of a feed record
\* whose price holds characters and does not parse
C22_UnparsableFoundInvalid ==
  /\ prPc = "imported"
  /\ \E r \in DOMAIN prDecisions :
       /\ prFeed[r].price \notin {<<>>, Undefined}
       /\ Unparsable(prFeed[r].price)
       /\ prDecisions[r].reason = "invalid price"

\* ------------------------------------------------- properties: pagination

\* every answer so far was the page of the unchanging catalog
AllPages == \A k \in DOMAIN faAnswers : faAnswers[k].body = "page"

\* C23: fetchAllProducts requests the offsets 0, 100, 200, ... in that order
\* with limit 100; it goes on after a page of 100 products and returns at the
\* first shorter one, the pages concatenated in the order of the requests.
\* From a catalog of N products that does not change it returns every product
\* once, in the catalog's order, after N \div 100 + 1 requests. It throws at
\* the first answer that is not ok and then returns nothing.
C23_Pagination ==
  /\ \A k \in DOMAIN faRequests : faRequests[k] = [limit |-> 100, offset |-> (k - 1) * 100]
  /\ \A k \in DOMAIN faPages :
       Len(faPages[k]) < 100 <=> (k = Len(faPages) /\ faPc = "returned")
  /\ faReturned.returned <=> faPc = "returned"
  /\ faPc = "returned" => faReturned.value = Concat(faPages) /\ Len(faPages) = Len(faRequests)
  /\ (faPc = "returned" /\ AllPages) =>
       /\ faReturned.value = faCatalog
       /\ Len(faRequests) = (Len(faCatalog) \div 100) + 1
  /\ \A k \in DOMAIN faAnswers :
       ~Ok(faAnswers[k]) => (k = Len(faAnswers) /\ faPc = "thrown")
  /\ faPc = "thrown" => faReturned = NotReturned /\ ~Ok(faAnswers[Len(faAnswers)])

\* a catalog of two full pages has been returned after three requests, the
\* third page empty
C23_ThreePagesReturned ==
  /\ faPc = "returned" /\ AllPages
  /\ Len(faCatalog) = 200
  /\ Len(faRequests) = 3
  /\ faPages[3] = <<>>

\* ------------------------------------------------- properties: two runs at once

\* the create requests of run r that made a product
MadeBy(r) == SelectSeq(rcCreates, LAMBDA c : c.run = r /\ c.made)

\* C24: when the steps of two importer runs interleave, each run still sends
\* a create request only after its own lookup of that record found nothing,
\* and no run makes one handle twice; a create request for a handle the
\* catalog holds at that moment only follows a product the other run made
\* after the lookup. That the two runs both make a product of one handle is
\* the state C24_BothRunsCreated, which the runs reach.
C24_CreateAfterOwnEmptyLookup ==
  /\ \A k \in DOMAIN rcCreates :
       LET c == rcCreates[k]
       IN  /\ c.lookup.row = c.row /\ c.lookup.count = 0
           /\ c.held =>
                \E p \in DOMAIN rcCatalog :
                  /\ p > c.lookup.seen
                  /\ rcCatalog[p].handle = c.handle
                  /\ rcCatalog[p].by \in Runs \ {c.run}
  /\ \A r \in Runs :
       \A i, j \in DOMAIN MadeBy(r) : i # j => MadeBy(r)[i].handle # MadeBy(r)[j].handle

\* both runs have looked a handle up before either made it, and both have
\* made it: the catalog holds two products of the handle
C24_BothRunsCreated ==
  \E i, j \in DOMAIN rcCreates :
    /\ rcCreates[i].run = 1 /\ rcCreates[j].run = 2
    /\ rcCreates[i].handle = rcCreates[j].handle
    /\ rcCreates[i].made /\ rcCreates[j].made
    /\ rcCreates[i].lookup.count = 0 /\ rcCreates[j].lookup.count = 0
    /\ Len(SelectSeq(rcCatalog, LAMBDA p : p.handle = rcCreates[i].handle)) = 2

\* ------------------------------------------------- properties: one match per product

\* C25: no two feed rows of a run are matched to one catalog product, no two
\* StockMismatch entries are about one product and no two LooseMatch entries
\* are about one product. The run refutes it: every feed row is matched on
\* its own, and two rows with one slug, or with one comparison key, get the
\* same product.
C25_OneMatchPerProduct ==
  /\ \A i, j \in DOMAIN rowMatch :
       (i # j /\ rowMatch[i].product # 0) => rowMatch[i].product # rowMatch[j].product
  /\ \A i, j \in DOMAIN stockIssues : i # j => stockIssues[i].handle # stockIssues[j].handle
  /\ \A i, j \in DOMAIN looseMatches :
       i # j => looseMatches[i].medusa_handle # looseMatches[j].medusa_handle

\* ------------------------------------------------- properties: the summary's totals

\* C26: in a run that has written its summary every record was pushed to
\* exactly one of created, skipped and failed, the totals of the summary add
\* up to the number of rows, and a record whose product was made and whose
\* inventory-item request failed is in created only. The run refutes it: the
\* push to created, and the push to skipped, come before the append to the log
\* file inside a try block, so that an append that fails pushes the record to
\* failed as well.
C26_OneBucketPerRow ==
  tlPc = "done" =>
    /\ \A k \in DOMAIN tlPushes : Len(tlPushes[k]) = 1
    /\ tlSummary.created + tlSummary.skipped + tlSummary.failed = tlSummary.rows
    /\ \A k \in DOMAIN tlPushes : tlInventory[k] = "failed" => tlPushes[k] = <<"created">>
====
